---- MODULE Spec2Model ----
(***************************************************************************)
(* earlove: the rate-limited Spotify client (lib/spotify.ts) and the phase *)
(* builders of the heard profile (lib/heard-profile.ts).                   *)
(*                                                                         *)
(* One behaviour is one invocation of one phase builder (for the library   *)
(* phase optionally followed by the caller's cursor loop).  Every upstream *)
(* request is one step of the client; the upstream answers each request    *)
(* with any status / Retry-After / body of the small sets below.           *)
(***************************************************************************)
EXTENDS Integers, Sequences, FiniteSets, TLC

\* ---------------------------------------------------------------- bounds
MaxLibPages == 2          \* saved-library sizes go up to MaxLibPages pages (+1 track)
MaxCap == 2               \* page caps 1..MaxCap are tried next to the default cap
MaxFailedCalls == 1       \* client calls the upstream lets fail in one behaviour
CatalogPrefix == 3        \* buildGenres probes this many genres of PROBE_GENRES
MaxGenreArtists == 2      \* length of the artist list given to buildGenres
MaxTopArtists == 2        \* length of the top-artist list given to buildDiscography
MaxTopGenres == 2         \* length of the genre list given to buildMainstreamAnalysis
MaxIds == 2               \* track identifiers the phase outputs are drawn from
MaxChunks == 2            \* chunks of one library scan of the dashboard
MaxGenreCount == 32       \* genres of an evenly spread genreFrequency
MaxKnown == 3             \* length of knownGenres given to computeBlindSpots
MaxRotation == 3          \* rotations tried for the shuffle of the untouched genres
MaxProcessed == 3         \* calls of processTrack on one set of accumulators
MaxTicks == 3             \* times the browser clock is advanced
MaxRefreshes == 2         \* refresh requests started by refreshAccessToken
MaxCalls == 2             \* calls of getValidSession by one caller
MaxArtistList == 2        \* length of one top-artist list of buildBasics
MaxBasicsFetches == 2     \* basics requests of the dashboard in flight at once

\* ------------------------------------------------------ program constants
MAX_RETRIES_ONE_MORE == 3 + 1
MAX_RETRIES == 3
MAX_WAIT_S == 30
DEFAULT_RETRY_AFTER == 5
PAGE_SIZE == 50
DEFAULT_MAX_PAGES == 20
PACING_MS == 1500
TIME_BUDGET_MS == 50000
LOOKUP_START_MARGIN_MS == 20000
LOOKUP_MARGIN_MS == 5000
PROBE_START_MARGIN_MS == 5000
PROBE_MARGIN_MS == 3000
MAX_ARTIST_LOOKUPS == 8
ARTISTS_TO_SCAN == 5
ALBUMS_PER_ARTIST == 5
MAINSTREAM_GENRES == 8
REFRESH_BUFFER_MS == 300000
TTL_MS == 86400000
RATE_LIMIT_COOLDOWN_MS == 90000

\* ------------------------------------------------------------- upstream
Absent == -1              \* response without a Retry-After header
Null == -1                \* nextOffset: null
RetryAfterHeaders == {Absent, 5, 30, 45}
Bodies == {"bodyA", "bodyB"}

NoResp == [status |-> 0, ra |-> Absent, body |-> "", payload |-> ""]

\* The JSON a 200 response may carry, per client method.  Where the phase
\* builders only look at the data of the upstream collections below, the
\* payload is "data"; elsewhere the upstream chooses among the shapes the
\* builder distinguishes.
Payloads(op) ==
  CASE op = "getPlaylistTracks" -> {"page", "short", "empty"}
    [] op = "getArtist" -> {"genres", "nogenres"}
    [] op = "searchProbe" -> {"match", "match2", "nomatch"}
    [] op = "getArtistAlbums" -> {"noalbums", "albums1", "albums2"}
    [] op = "getAlbumTracks" -> {"empty", "allheard", "unheard1", "unheard2"}
    [] op = "searchMainstream" -> {"none", "mixed", "unknown", "few"}
    [] op \in {"getTopTracks", "getRecentlyPlayed", "getTopArtists",
                "getFollowedArtists"} -> {"items", "empty"}
    [] OTHER -> {"data"}

\* What the upstream may answer to one request: a Retry-After header only
\* matters on 429, a body only on a failure.
FailureResponses ==
  [status : {500}, ra : {Absent}, body : Bodies, payload : {""}]
    \cup [status : {401}, ra : {Absent}, body : {"bodyA"}, payload : {""}]
    \cup [status : {429}, ra : RetryAfterHeaders, body : {"bodyA"}, payload : {""}]

Responses(op) ==
  [status : {200}, ra : {Absent}, body : {""}, payload : Payloads(op)]
    \cup FailureResponses

\* --------------------------------------------------------------- errors
NoErr == [kind |-> "none", secs |-> 0, status |-> 0, body |-> ""]
LongErr(s) == [kind |-> "rate_limit_long", secs |-> s, status |-> 429, body |-> ""]
StatusErr(st, b) == [kind |-> "status", secs |-> 0, status |-> st, body |-> b]
ExhaustedErr == [kind |-> "rate_limited_on", secs |-> 0, status |-> 429, body |-> ""]

IsLong(e) == e.kind = "rate_limit_long"
IsAuthFailure(e) == e.kind = "status" /\ e.status = 401

\* ------------------------------------------------- SpotifyClient.fetch
ParseRetryAfterDefault1(h) == IF h = Absent THEN 1 ELSE h
ParseRetryAfter(h) == IF h = Absent THEN DEFAULT_RETRY_AFTER ELSE h

IsThrottleAnyError(status) == status >= 429
IsThrottle(status) == status = 429

ExceedsMaxWaitDoubled(retryAfter) == retryAfter > 2 * MAX_WAIT_S
ExceedsMaxWait(retryAfter) == retryAfter > MAX_WAIT_S

MayRetry(attempt) == attempt < MAX_RETRIES

LoopContinues(attempt) == attempt <= MAX_RETRIES

ResponseOk(status) == status >= 200 /\ status <= 299

IdleCall ==
  [op |-> "none", arg |-> 0, paced |-> FALSE, status |-> "idle", attempt |-> 0,
   sent |-> 0, waited |-> 0, last |-> NoResp, err |-> NoErr]

\* A phase calls a client method: the for loop of fetch starts at attempt 0.
NewCall(op, arg, paced) ==
  [IdleCall EXCEPT !.op = op, !.arg = arg, !.paced = paced, !.status = "inflight"]

\* One iteration of the for loop of fetch, given the response r it received.
FetchIteration(c, r) ==
  LET retryAfter == ParseRetryAfter(r.ra)
      got == [c EXCEPT !.sent = c.sent + 1, !.last = r]
  IN  IF IsThrottle(r.status) /\ ExceedsMaxWait(retryAfter)
        THEN [got EXCEPT !.status = "err", !.err = LongErr(retryAfter)]
      ELSE IF IsThrottle(r.status) /\ MayRetry(c.attempt)
        THEN IF LoopContinues(c.attempt + 1)
               THEN [got EXCEPT !.waited = c.waited + retryAfter,
                                !.attempt = c.attempt + 1]
               ELSE [got EXCEPT !.waited = c.waited + retryAfter,
                                !.attempt = c.attempt + 1,
                                !.status = "err", !.err = ExhaustedErr]
      ELSE IF ~ResponseOk(r.status)
        THEN [got EXCEPT !.status = "err", !.err = StatusErr(r.status, r.body)]
      ELSE [got EXCEPT !.status = "ok"]

\* ---------------------------------------------------------------- state
VARIABLES
  phase,          \* the phase builder this behaviour invokes
  pc,             \* position inside the builder (or its caller's loop)
  call,           \* the client call in progress (locals of SpotifyClient.fetch)
  outcome,        \* how the invocation ended towards its caller
  failures,       \* client calls that have thrown in this behaviour
  longSeen,       \* the long-cooldown error a client call of this invocation threw
  sentAfterLong,  \* a request was sent after a call had thrown the long cooldown
  authSeen,       \* a client call of this invocation threw on a 401
  libTotal,       \* upstream: number of saved tracks (does not change)
  lib,            \* locals and result of buildLibrary
  loader,         \* the caller that threads nextOffset (loadLibrary)
  basics,         \* locals and result of buildBasics
  plUp,           \* upstream: the user's playlists
  pl,             \* locals and result of buildPlaylists
  gen,            \* inputs, locals and result of buildGenres
  disco,          \* inputs, locals and result of buildDiscography
  ms,             \* inputs, locals and result of buildMainstreamAnalysis
  dash,           \* state of the Dashboard component (heard sets, phase statuses)
  an,             \* input and output of the analysis functions
  trk,            \* accumulators that processTrack fills, and the track it was given
  auth,           \* auth.ts: refreshPromise, the refresh requests, the callers of getValidSession
  storage,        \* localStorage: the session and the profile cache entry; the last loadCache
  now             \* Date.now() of the browser, in ms since the page was opened

clientVars == <<call, failures, longSeen, sentAfterLong, authSeen>>
ghostVars == <<failures, longSeen, sentAfterLong, authSeen>>
libVars == <<libTotal, lib, loader>>
plVars == <<plUp, pl>>
builderVars == <<phase, pc, outcome, clientVars, libVars, basics, plVars, gen, disco, ms>>
vars == <<builderVars, dash, an, trk, auth, storage, now>>

Running == [kind |-> "running", err |-> NoErr]
Returned == [kind |-> "returned", err |-> NoErr]
Thrown(e) == [kind |-> "thrown", err |-> e]

\* Start the next client call of the running invocation; paced tells whether
\* a pacing delay separates it from the previous call.
StartCall(op, arg, paced) == call' = NewCall(op, arg, paced)

\* ------------------------------------------------------------ wall clock
\* Date.now() - startTime of buildGenres, in ms.  Nothing distinguishes two
\* instants after the budget has run out, so the clock stops there.
Advance(elapsed, millis) ==
  IF elapsed + millis >= TIME_BUDGET_MS THEN TIME_BUDGET_MS ELSE elapsed + millis

\* ------------------------------------------------------ client: one request
\* One iteration of fetch's loop: send the request, receive one of the
\* responses the upstream may give.
ClientRequestFrom(responses) ==
  /\ call.status = "inflight"
  /\ \E r \in responses :
       /\ call' = FetchIteration(call, r)
       /\ call'.status = "err" => failures < MaxFailedCalls
       /\ failures' = IF call'.status = "err" THEN failures + 1 ELSE failures
       /\ sentAfterLong' = (sentAfterLong \/ IsLong(longSeen))
       /\ longSeen' = IF call'.status = "err" /\ IsLong(call'.err) /\ ~IsLong(longSeen)
                        THEN call'.err ELSE longSeen
       /\ authSeen' = (authSeen \/ (call'.status = "err" /\ IsAuthFailure(call'.err)))
       /\ gen' = IF phase = "genres"
                   THEN [gen EXCEPT
                           !.elapsed = Advance(@, 1000 * (call'.waited - call.waited))]
                   ELSE gen
  /\ UNCHANGED <<dash, an, trk, auth, storage, now, phase, pc, outcome, libVars, basics, plVars, disco, ms>>

ClientRequest == ClientRequestFrom(Responses(call.op))

\* An upstream that settles every call at its first request: 200 with any
\* payload, 429 with a long Retry-After, 500.
SteadyResponses(op) ==
  {r \in Responses(op) :
     \/ r.status = 200
     \/ r.status = 429 /\ r.ra = 45
     \/ r.status = 500 /\ r.body = "bodyA"}

ClientRequestSteady == ClientRequestFrom(SteadyResponses(call.op))

\* An upstream for inputs longer than the caps of the builders: artists with
\* at most one album when the artist list is long, one artist with six albums
\* otherwise; every call is settled at its first request, by 200 or by 500.
LongInputPayloads(op, artists) ==
  CASE op = "getArtistAlbums" ->
         IF artists > 1 THEN {"noalbums", "albums1"} ELSE {"albums6"}
    [] op = "getAlbumTracks" -> {"allheard", "unheard1"}
    [] op = "searchMainstream" -> {"mixed"}
    [] op = "getArtist" -> {"genres", "nogenres"}
    [] op = "searchProbe" -> {"match", "nomatch"}
    [] OTHER -> {"data"}

LongInputResponses(op, artists) ==
  [status : {200}, ra : {Absent}, body : {""}, payload : LongInputPayloads(op, artists)]
    \cup [status : {500}, ra : {Absent}, body : {"bodyA"}, payload : {""}]

\* ------------------------------------------------- upstream: saved tracks
\* GET /me/tracks?limit=50&offset=o : the tracks at positions o+1 .. o+50.
SavedPage(total, o) == {i \in 1..total : i > o /\ i <= o + PAGE_SIZE}

LibTotals == {0, 1} \cup {PAGE_SIZE * k + d : k \in 1..MaxLibPages, d \in {0, 1}}
StartOffsets == {0, PAGE_SIZE, 2 * PAGE_SIZE, 3 * PAGE_SIZE}
PageCaps == (1..MaxCap) \cup {DEFAULT_MAX_PAGES}

\* ---------------------------------------------------------- buildLibrary
NextPageOffsetSkipping(offset) == offset + 2 * PAGE_SIZE
NextPageOffset(offset) == offset + PAGE_SIZE

MorePagesIgnoringCap(offset, savedTotal, pagesScanned, maxPages) == offset < savedTotal
MorePages(offset, savedTotal, pagesScanned, maxPages) ==
  offset < savedTotal /\ pagesScanned < maxPages

LibraryDone(offset, savedTotal) == offset >= savedTotal

LibraryNextOffsetUnlessTotalKnown(offset, savedTotal) ==
  IF savedTotal > 0 /\ offset >= savedTotal THEN Null ELSE offset
LibraryNextOffset(offset, savedTotal) ==
  IF LibraryDone(offset, savedTotal) THEN Null ELSE offset

NewLibrary(startOffset, maxPages) ==
  [startOffset |-> startOffset, maxPages |-> maxPages, offset |-> startOffset,
   savedTotal |-> 0, pagesScanned |-> 0, trackIds |-> {}, failed |-> FALSE,
   pageCalls |-> 0, nextOffset |-> Null]

IdleLoader ==
  [threaded |-> FALSE, status |-> "idle", heardTracks |-> {}, invocations |-> 0,
   anyFailed |-> FALSE, fetched |-> {}, fetchedTwice |-> FALSE]

\* buildLibrary: entry, up to the first await of getSavedTracks(50, offset)
BuildLibraryBegin ==
  /\ phase = "library" /\ pc = "lib_begin"
  /\ StartCall("getSavedTracks", lib.offset, FALSE)
  /\ lib' = [lib EXCEPT !.pageCalls = @ + 1]
  /\ pc' = "lib_page"
  /\ UNCHANGED <<dash, an, trk, auth, storage, now, phase, outcome, ghostVars, libTotal, loader, basics, plVars, gen, disco, ms>>

\* buildLibrary: a page arrived (the first one, or one of the while loop)
LibraryPage ==
  /\ phase = "library" /\ pc = "lib_page" /\ call.status = "ok"
  /\ LET got == [lib EXCEPT
                   !.trackIds = @ \cup SavedPage(libTotal, lib.offset),
                   !.savedTotal = IF lib.pagesScanned = 0 THEN libTotal ELSE @,
                   !.offset = NextPageOffset(lib.offset),
                   !.pagesScanned = @ + 1]
     IN  /\ loader' = [loader EXCEPT
                         !.fetchedTwice = @ \/ lib.offset \in loader.fetched,
                         !.fetched = @ \cup {lib.offset}]
         /\ IF MorePages(got.offset, got.savedTotal, got.pagesScanned, got.maxPages)
              THEN /\ StartCall("getSavedTracks", got.offset, TRUE)
                   /\ lib' = [got EXCEPT !.pageCalls = @ + 1]
                   /\ pc' = "lib_page"
                   /\ outcome' = outcome
              ELSE /\ call' = IdleCall
                   /\ lib' = [got EXCEPT
                                !.nextOffset = LibraryNextOffset(got.offset, got.savedTotal)]
                   /\ pc' = "return"
                   /\ outcome' = Returned
  /\ UNCHANGED <<dash, an, trk, auth, storage, now, phase, ghostVars, libTotal, basics, plVars, gen, disco, ms>>

\* buildLibrary: catch (err) around the whole scan, then the return
LibraryCatch ==
  /\ phase = "library" /\ pc = "lib_page" /\ call.status = "err"
  /\ call' = IdleCall
  /\ lib' = [lib EXCEPT !.failed = TRUE,
                        !.nextOffset = LibraryNextOffset(lib.offset, lib.savedTotal)]
  /\ loader' = [loader EXCEPT !.anyFailed = TRUE]
  /\ pc' = "return"
  /\ outcome' = Returned
  /\ UNCHANGED <<dash, an, trk, auth, storage, now, phase, ghostVars, libTotal, basics, plVars, gen, disco, ms>>

\* loadLibrary: merge the chunk, then loop while nextOffset !== null
LoadLibraryChunk ==
  /\ phase = "library" /\ pc = "return" /\ loader.threaded
  /\ IF lib.nextOffset # Null
       THEN /\ lib' = NewLibrary(lib.nextOffset, lib.maxPages)
            /\ pc' = "lib_begin"
            /\ outcome' = Running
            /\ loader' = [loader EXCEPT !.heardTracks = @ \cup lib.trackIds,
                                        !.invocations = @ + 1]
            /\ longSeen' = NoErr /\ sentAfterLong' = FALSE /\ authSeen' = FALSE
       ELSE /\ lib' = lib
            /\ pc' = "done"
            /\ outcome' = outcome
            /\ loader' = [loader EXCEPT !.heardTracks = @ \cup lib.trackIds,
                                        !.invocations = @ + 1,
                                        !.status = "done"]
            /\ UNCHANGED <<longSeen, sentAfterLong, authSeen>>
  /\ UNCHANGED <<dash, an, trk, auth, storage, now, phase, call, failures, libTotal, basics, plVars, gen, disco, ms>>

\* ------------------------------------------------------------ buildBasics
\* The eight sub-calls wrapped in safe(), in program order.
BasicsLabels ==
  <<"Top Tracks (short)", "Top Tracks (medium)", "Top Tracks (long)",
    "Recently Played", "Top Artists (short)", "Top Artists (medium)",
    "Top Artists (long)", "Followed Artists">>

BasicsOps ==
  <<"getTopTracks", "getTopTracks", "getTopTracks", "getRecentlyPlayed",
    "getTopArtists", "getTopArtists", "getTopArtists", "getFollowedArtists">>

NoArtistLists == [long |-> <<>>, medium |-> <<>>, short |-> <<>>, followed |-> <<>>]
NoRouteResponse == [status |-> 0, error |-> "none", retryAfter |-> 0]

IdleBasics ==
  [step |-> 0, warnings |-> <<>>, got |-> {}, anyData |-> FALSE, failedAt |-> {},
   delivered |-> "none", response |-> NoRouteResponse, status |-> "loading",
   cooldownMs |-> 0, artists |-> NoArtistLists, collected |-> FALSE,
   topArtistIds |-> <<>>, artistIds |-> {}]

\* the ids of the artists of the upstream lists; "" is an artist without id
UpstreamArtistIds == {"", "artistA", "artistB", "artistC"}

RECURSIVE SeqsUpTo(_, _)
SeqsUpTo(S, n) ==
  IF n = 0 THEN {<<>>}
  ELSE SeqsUpTo(S, n - 1) \cup {Append(q, x) : q \in SeqsUpTo(S, n - 1), x \in S}

ArtistLists ==
  [long : SeqsUpTo(UpstreamArtistIds, MaxArtistList),
   medium : SeqsUpTo(UpstreamArtistIds, MaxArtistList),
   short : SeqsUpTo(UpstreamArtistIds, MaxArtistList),
   followed : {<<"artistD", "artistA">>}]

\* [...longArtists, ...mediumArtists, ...shortArtists]
TopArtistOrderShortFirst(long, medium, short) == short \o medium \o long
TopArtistOrder(long, medium, short) == long \o medium \o short

\* forEach((a) => { if (a.id) topArtistIdSet.add(a.id); }); [...topArtistIdSet]:
\* a Set keeps its elements in the order of their first insertion
RECURSIVE AddAllInOrder(_, _)
AddAllInOrder(inserted, ids) ==
  IF ids = <<>> THEN inserted
  ELSE AddAllInOrder(
         IF Head(ids) = "" \/ \E i \in 1..Len(inserted) : inserted[i] = Head(ids)
           THEN inserted ELSE Append(inserted, Head(ids)),
         Tail(ids))

TopArtistIds(lists) ==
  AddAllInOrder(<<>>, TopArtistOrder(lists.long, lists.medium, lists.short))

\* allArtists.forEach((a) => { if (a.id) artistIds.add(a.id) ... })
AllArtistIds(lists) ==
  LET allArtists == lists.short \o lists.medium \o lists.long \o lists.followed
  IN  {allArtists[i] : i \in 1..Len(allArtists)} \ {""}

\* buildBasics from "Preserve the user's actual top artists" to artistIds
BasicsCollectArtists ==
  /\ phase = "topArtists"
  /\ ~basics.collected
  /\ basics' = [basics EXCEPT !.collected = TRUE,
                              !.topArtistIds = TopArtistIds(basics.artists),
                              !.artistIds = AllArtistIds(basics.artists)]
  /\ UNCHANGED <<dash, an, trk, auth, storage, now, phase, pc, outcome, clientVars, libVars, plVars, gen, disco, ms>>

\* catch around getMe: the long cooldown is rethrown as it is, anything else
\* is wrapped into "Spotify unavailable: <msg>. Wait a moment and retry."
UnavailableErr(e) == [e EXCEPT !.kind = "spotify_unavailable"]
BasicsMeError(e) == IF IsLong(e) THEN e ELSE UnavailableErr(e)

\* safe(): the error is turned into the warning "<label>: <msg>"
SafeWarning(label, e) == [label |-> label, err |-> e]

BuildBasicsBegin ==
  /\ phase = "basics" /\ pc = "basics_begin"
  /\ StartCall("getMe", 0, FALSE)
  /\ pc' = "basics_me"
  /\ UNCHANGED <<dash, an, trk, auth, storage, now, phase, outcome, ghostVars, libVars, basics, plVars, gen, disco, ms>>

BasicsMeFailed ==
  /\ phase = "basics" /\ pc = "basics_me" /\ call.status = "err"
  /\ call' = IdleCall
  /\ outcome' = Thrown(BasicsMeError(call.err))
  /\ pc' = "return"
  /\ UNCHANGED <<dash, an, trk, auth, storage, now, phase, ghostVars, libVars, basics, plVars, gen, disco, ms>>

BasicsMeOk ==
  /\ phase = "basics" /\ pc = "basics_me" /\ call.status = "ok"
  /\ StartCall(BasicsOps[1], 1, TRUE)
  /\ basics' = [basics EXCEPT !.step = 1]
  /\ pc' = "basics_safe"
  /\ UNCHANGED <<dash, an, trk, auth, storage, now, phase, outcome, ghostVars, libVars, plVars, gen, disco, ms>>

\* if (trackIds.size === 0 && artistIds.size === 0 && errors.length > 0)
\*   errors.unshift('All data calls returned empty ...')
AllEmptyWarning == [label |-> "All data calls returned empty", err |-> NoErr]

WithAllEmptyWarning(b) ==
  IF ~b.anyData /\ Len(b.warnings) > 0
    THEN [b EXCEPT !.warnings = <<AllEmptyWarning>> \o @]
    ELSE b

\* One safe() sub-call ended, either way; then the next one or the return.
BasicsSafeEnded ==
  /\ phase = "basics" /\ pc = "basics_safe" /\ call.status \in {"ok", "err"}
  /\ LET k == basics.step
         after == IF call.status = "ok"
                    THEN [basics EXCEPT
                            !.got = @ \cup {BasicsLabels[k]},
                            !.anyData = @ \/ call.last.payload = "items"]
                    ELSE [basics EXCEPT
                            !.warnings = Append(@, SafeWarning(BasicsLabels[k], call.err)),
                            !.failedAt = @ \cup {k}]
     IN  IF k < Len(BasicsOps)
           THEN /\ StartCall(BasicsOps[k + 1], k + 1, TRUE)
                /\ basics' = [after EXCEPT !.step = k + 1]
                /\ UNCHANGED <<pc, outcome>>
           ELSE /\ call' = IdleCall
                /\ basics' = WithAllEmptyWarning(after)
                /\ pc' = "return"
                /\ outcome' = Returned
  /\ UNCHANGED <<dash, an, trk, auth, storage, now, phase, ghostVars, libVars, plVars, gen, disco, ms>>

\* ------------------------------------- GET /api/profile/basics, loadBasics
\* The texts the route and the dashboard search error messages for.  The
\* message of a client error is "Spotify <status>: <body>"; the bodies of the
\* model hold neither "429" nor "rate".
MessageMentions429OrRate(e) == e.status = 429

\* the route handler: buildBasics' result as JSON, or the catch block
BasicsRouteResponse(o) ==
  IF o.kind = "returned"
    THEN [status |-> 200, error |-> "none", retryAfter |-> 0]
  ELSE IF IsLong(o.err)
    THEN [status |-> 429, error |-> "rate_limit_long", retryAfter |-> o.err.secs]
  ELSE IF MessageMentions429OrRate(o.err)
    THEN [status |-> 429, error |-> "Spotify rate limit", retryAfter |-> 0]
  ELSE [status |-> 500, error |-> "Spotify unavailable", retryAfter |-> 0]

\* loadBasics: what the user gets for a response of the route
BasicsDelivery(res) ==
  IF res.status = 401 \/ res.error = "Not authenticated" THEN "session_expired"
  ELSE IF res.error = "rate_limit_long" /\ res.retryAfter # 0 THEN "cooldown"
  ELSE IF res.status = 200 THEN "done"
  ELSE IF res.error = "Spotify rate limit" THEN "rate_limit_90s"
  ELSE "error"

\* basicsStatus after loadBasics has handled the response (on a session
\* that expired it returns before setting any)
BasicsStatusAfter(res) ==
  CASE BasicsDelivery(res) = "session_expired" -> "loading"
    [] BasicsDelivery(res) = "done" -> "done"
    [] OTHER -> "error"

\* rateLimitUntil - Date.now() as loadBasics sets it:
\*   setRateLimitUntil(Date.now() + data.retryAfter * 1000), or in the catch
\*   const cooldownMs = 90_000; setRateLimitUntil(Date.now() + cooldownMs)
CooldownMsDefault(res) ==
  IF BasicsDelivery(res) \in {"cooldown", "rate_limit_90s"}
    THEN RATE_LIMIT_COOLDOWN_MS ELSE 0
CooldownMs(res) ==
  CASE BasicsDelivery(res) = "cooldown" -> res.retryAfter * 1000
    [] BasicsDelivery(res) = "rate_limit_90s" -> RATE_LIMIT_COOLDOWN_MS
    [] OTHER -> 0

\* the route answers and loadBasics handles the answer
BasicsRouteDelivers ==
  /\ phase = "basics" /\ pc = "return"
  /\ LET res == BasicsRouteResponse(outcome)
     IN  basics' = [basics EXCEPT !.delivered = BasicsDelivery(res),
                                 !.response = res,
                                 !.status = BasicsStatusAfter(res),
                                 !.cooldownMs = CooldownMs(res)]
  /\ pc' = "delivered"
  /\ UNCHANGED <<dash, an, trk, auth, storage, now, phase, call, outcome, ghostVars, libVars, plVars, gen, disco, ms>>

\* --------------------------------------------------- upstream: playlists
\* The user's playlists, by position in the listing.  Position 1 holds a
\* playlist of two track pages, position 2 an empty one, position 51 (the
\* first of the second listing page) one of exactly one page.
PlaylistPositions == {1, 2, PAGE_SIZE + 1}
PlaylistCounts == {0, 2, PAGE_SIZE + 1}

PlaylistTracksTotal(p) ==
  CASE p = 1 -> PAGE_SIZE + 10
    [] p = PAGE_SIZE + 1 -> PAGE_SIZE
    [] OTHER -> 0

\* GET /me/playlists?limit=50&offset=o
ListingPage(count, o) == {p \in 1..count : p > o /\ p <= o + PAGE_SIZE}

TrackIdOf(p, k) == 1000 * p + k

\* GET /playlists/{p}/tracks?limit=50&offset=o ; "empty": the upstream strips
\* the items although the total says there are more; "short": it sends half
\* a page.
PlaylistPage(p, o, payload) ==
  LET size == IF payload = "short" THEN PAGE_SIZE \div 2 ELSE PAGE_SIZE
  IN  IF payload = "empty" THEN {}
      ELSE {TrackIdOf(p, k) : k \in {n \in 1..PlaylistTracksTotal(p) : n > o /\ n <= o + size}}

\* --------------------------------------------------------- buildPlaylists
IdlePlaylists ==
  [plOffset |-> 0, listed |-> {}, ownedPlaylists |-> {}, cur |-> 0, ptOffset |-> 0,
   trackIds |-> {}, playlistTracks |-> 0, attempted |-> {}, failedOn |-> {},
   pagesOk |-> {}, blockedOn |-> {}]

\* The catch inside "for (const playlist of ownedPlaylists)" logs whatever was
\* thrown and lets the for loop go on.
PlaylistCatchRethrows(e) == FALSE
PlaylistCatchContinues(e) == TRUE

Smallest(S) == CHOOSE x \in S : \A y \in S : x <= y

\* The for loop moves on past playlist `from`: playlists whose total is 0 are
\* passed without a request; the next one with tracks gets its first page
\* requested; with none left buildPlaylists returns.
PlaylistsAdvance(rec, from) ==
  LET rest == {p \in rec.ownedPlaylists : p > from}
      withTracks == {p \in rest : PlaylistTracksTotal(p) > 0}
  IN  IF withTracks = {}
        THEN /\ pl' = [rec EXCEPT !.cur = 0, !.attempted = @ \cup rest]
             /\ call' = IdleCall
             /\ pc' = "return"
             /\ outcome' = Returned
        ELSE LET nxt == Smallest(withTracks)
             IN  /\ pl' = [rec EXCEPT !.cur = nxt, !.ptOffset = 0,
                                      !.attempted = @ \cup {p \in rest : p <= nxt}]
                 /\ StartCall("getPlaylistTracks", nxt, TRUE)
                 /\ pc' = "pl_tracks"
                 /\ outcome' = outcome

BuildPlaylistsBegin ==
  /\ phase = "playlists" /\ pc = "pl_begin"
  /\ StartCall("getMe", 0, FALSE)
  /\ pc' = "pl_me"
  /\ UNCHANGED <<dash, an, trk, auth, storage, now, phase, outcome, ghostVars, libVars, basics, plVars, gen, disco, ms>>

PlaylistsMeOk ==
  /\ phase = "playlists" /\ pc = "pl_me" /\ call.status = "ok"
  /\ StartCall("getMyPlaylists", 0, FALSE)
  /\ pc' = "pl_list"
  /\ UNCHANGED <<dash, an, trk, auth, storage, now, phase, outcome, ghostVars, libVars, basics, plVars, gen, disco, ms>>

\* while (true) { page = getMyPlaylists(50, plOffset); ... }
PlaylistsListingPage ==
  /\ phase = "playlists" /\ pc = "pl_list" /\ call.status = "ok"
  /\ LET got == [pl EXCEPT !.listed = @ \cup ListingPage(plUp.count, pl.plOffset),
                           !.plOffset = @ + PAGE_SIZE]
     IN  IF got.plOffset >= plUp.count
           THEN PlaylistsAdvance(
                  [got EXCEPT !.ownedPlaylists = got.listed \cap plUp.owned], 0)
           ELSE /\ pl' = got
                /\ StartCall("getMyPlaylists", got.plOffset, TRUE)
                /\ UNCHANGED <<pc, outcome>>
  /\ UNCHANGED <<dash, an, trk, auth, storage, now, phase, ghostVars, libVars, basics, plUp, gen, disco, ms>>

\* the outer catch: getMe or a listing page threw
PlaylistsOuterCatch ==
  /\ phase = "playlists" /\ pc \in {"pl_me", "pl_list"} /\ call.status = "err"
  /\ call' = IdleCall
  /\ pc' = "return"
  /\ outcome' = Returned
  /\ UNCHANGED <<dash, an, trk, auth, storage, now, phase, ghostVars, libVars, basics, plVars, gen, disco, ms>>

\* if (!page.items || page.items.length === 0) break;
EmptyPageGoesOn(items) == FALSE
EmptyPageStops(items) == items = {}

\* a page of the current playlist's tracks arrived
PlaylistsTracksPage ==
  /\ phase = "playlists" /\ pc = "pl_tracks" /\ call.status = "ok"
  /\ LET items == PlaylistPage(pl.cur, pl.ptOffset, call.last.payload)
         got == [pl EXCEPT !.trackIds = @ \cup items,
                           !.playlistTracks = @ + Cardinality(items),
                           !.ptOffset = @ + Cardinality(items),
                           !.pagesOk = @ \cup {<<pl.cur, pl.ptOffset, call.last.payload>>}]
     IN  IF EmptyPageStops(items)
           THEN PlaylistsAdvance([pl EXCEPT !.blockedOn = @ \cup {pl.cur}], pl.cur)
         ELSE IF got.ptOffset < PlaylistTracksTotal(pl.cur)
           THEN /\ pl' = got
                /\ StartCall("getPlaylistTracks", pl.cur, TRUE)
                /\ UNCHANGED <<pc, outcome>>
         ELSE PlaylistsAdvance(got, pl.cur)
  /\ UNCHANGED <<dash, an, trk, auth, storage, now, phase, ghostVars, libVars, basics, plUp, gen, disco, ms>>

\* the inner catch: a page of the current playlist threw
PlaylistsInnerCatch ==
  /\ phase = "playlists" /\ pc = "pl_tracks" /\ call.status = "err"
  /\ IF PlaylistCatchContinues(call.err)
       THEN PlaylistsAdvance([pl EXCEPT !.failedOn = @ \cup {pl.cur}], pl.cur)
       ELSE /\ pl' = [pl EXCEPT !.failedOn = @ \cup {pl.cur}]
            /\ call' = IdleCall
            /\ pc' = "return"
            /\ outcome' = Returned
  /\ UNCHANGED <<dash, an, trk, auth, storage, now, phase, ghostVars, libVars, basics, plUp, gen, disco, ms>>

\* ------------------------------------------------------------ buildGenres
PROBE_GENRES ==
  <<"rock", "pop", "hip-hop", "r-n-b", "electronic", "indie",
    "alternative", "jazz", "soul", "folk", "country", "metal",
    "punk", "blues", "funk", "classical", "reggae", "latin",
    "house", "ambient", "disco", "dance", "synth-pop", "new-wave",
    "post-punk", "shoegaze", "grunge", "lo-fi", "trip-hop", "neo-soul">>

ProbeCatalog == SubSeq(PROBE_GENRES, 1, CatalogPrefix)

\* upstream: the genres an artist object carries when it carries any (one of
\* the catalog, one outside it)
ArtistGenres == {"pop", "k-pop"}
Genres == {PROBE_GENRES[i] : i \in 1..Len(PROBE_GENRES)} \cup ArtistGenres

Min(a, b) == IF a <= b THEN a ELSE b

Range(seq) == {seq[i] : i \in 1..Len(seq)}

TimeRemaining(elapsed) == TIME_BUDGET_MS - elapsed

\* const addGenre = (genre, artistName) => { ... }
AddGenre(g, genre, artistName) ==
  [g EXCEPT !.knownGenres = @ \cup {genre},
            !.genreFrequency = [@ EXCEPT ![genre] = @ + 1],
            !.genreArtists = [@ EXCEPT ![genre] = @ \cup {artistName}]]

RECURSIVE AddGenres(_, _, _)
AddGenres(g, genres, artistName) ==
  IF genres = {} THEN g
  ELSE LET x == CHOOSE y \in genres : TRUE
       IN  AddGenres(AddGenre(g, x, artistName), genres \ {x}, artistName)

\* matchedNames: the name of every artist of every track of the search result
\* whose id is in artistIds; "match2" has the same known artist on two tracks
MatchedNames(payload) ==
  CASE payload = "match" -> << <<"artist", 0>> >>
    [] payload = "match2" -> << <<"artist", 0>>, <<"artist", 0>> >>
    [] OTHER -> <<>>

\* matchedNames.forEach((n) => addGenre(genre, n))
RECURSIVE AddGenreForEach(_, _, _)
AddGenreForEach(g, genre, names) ==
  IF names = <<>> THEN g
  ELSE AddGenreForEach(AddGenre(g, genre, Head(names)), genre, Tail(names))

\* PROBE_GENRES.filter((g) => !knownGenres.has(g))
GenresToProbeAll(known) == ProbeCatalog
GenresToProbe(known) == SelectSeq(ProbeCatalog, LAMBDA x : x \notin known)

\* the catch blocks of the lookup loop and of the probe loop:
\*   if (msg.startsWith('rate_limit_long:')) break;
GenreCatchBreaksAlways(e) == TRUE
GenreCatchBreaks(e) == IsLong(e)

NewGenres(n, preloaded) ==
  AddGenres(
    [n |-> n, preloaded |-> preloaded, elapsed |-> 0, idx |-> 0, pi |-> 0, toProbe |-> <<>>, probed |-> 0,
     knownGenres |-> {}, genreFrequency |-> [x \in Genres |-> 0],
     genreArtists |-> [x \in Genres |-> {}],
     lookedUp |-> {}, lookupFailed |-> {}, probeTried |-> {}, probeFailed |-> {},
     budgetStop |-> FALSE, longBreak |-> FALSE],
    preloaded, "preloaded artist")

GenresReturn(g) ==
  /\ gen' = g
  /\ call' = IdleCall
  /\ pc' = "return"
  /\ outcome' = Returned

\* The probe loop is about to run its iteration number k (1-based) of toProbe.
GenresProbeLoop(g, k) ==
  IF k > Len(g.toProbe) THEN GenresReturn(g)
  ELSE IF TimeRemaining(g.elapsed) < PROBE_MARGIN_MS
    THEN GenresReturn([g EXCEPT !.budgetStop = TRUE])
  ELSE /\ gen' = [g EXCEPT !.pi = k, !.probeTried = @ \cup {g.toProbe[k]}]
       /\ StartCall("searchProbe", k, g.pi > 0 /\ g.toProbe[g.pi] \notin g.probeFailed)
       /\ pc' = "gen_probe"
       /\ outcome' = outcome

\* After the artist lookups (or without them): the genre probe.
GenresProbeStart(g) ==
  LET toProbe == GenresToProbe(g.knownGenres)
  IN  IF Len(toProbe) > 0 /\ g.n > 0
           /\ TimeRemaining(g.elapsed) > PROBE_START_MARGIN_MS
        THEN GenresProbeLoop([g EXCEPT !.toProbe = toProbe, !.pi = 0], 1)
        ELSE GenresReturn(
               [g EXCEPT !.budgetStop =
                   @ \/ (Len(toProbe) > 0 /\ g.n > 0
                           /\ TimeRemaining(g.elapsed) <= PROBE_START_MARGIN_MS)])

\* The lookup loop is about to run its iteration idx (0-based).
GenresLookupLoop(g, idx) ==
  IF idx >= Min(g.n, MAX_ARTIST_LOOKUPS) THEN GenresProbeStart(g)
  ELSE IF TimeRemaining(g.elapsed) < LOOKUP_MARGIN_MS
    THEN GenresProbeStart([g EXCEPT !.budgetStop = TRUE])
  ELSE /\ gen' = [g EXCEPT !.idx = idx, !.lookedUp = @ \cup {idx},
                           !.elapsed = IF idx > 0 THEN Advance(@, PACING_MS) ELSE @]
       /\ StartCall("getArtist", idx, idx > 0)
       /\ pc' = "gen_lookup"
       /\ outcome' = outcome

BuildGenresBegin ==
  /\ phase = "genres" /\ pc = "gen_begin"
  /\ IF gen.knownGenres = {} /\ TimeRemaining(gen.elapsed) > LOOKUP_START_MARGIN_MS
       THEN GenresLookupLoop(gen, 0)
       ELSE GenresProbeStart(gen)
  /\ UNCHANGED <<dash, an, trk, auth, storage, now, phase, ghostVars, libVars, basics, plVars, disco, ms>>

GenresArtistOk ==
  /\ phase = "genres" /\ pc = "gen_lookup" /\ call.status = "ok"
  /\ LET got == IF call.last.payload = "genres"
                  THEN AddGenres(gen, ArtistGenres, <<"artist", gen.idx>>)
                  ELSE gen
     IN  GenresLookupLoop(got, gen.idx + 1)
  /\ UNCHANGED <<dash, an, trk, auth, storage, now, phase, ghostVars, libVars, basics, plVars, disco, ms>>

GenresArtistCatch ==
  /\ phase = "genres" /\ pc = "gen_lookup" /\ call.status = "err"
  /\ LET got == [gen EXCEPT !.lookupFailed = @ \cup {gen.idx}]
     IN  IF GenreCatchBreaks(call.err)
           THEN GenresProbeStart([got EXCEPT !.longBreak = TRUE])
           ELSE GenresLookupLoop(got, gen.idx + 1)
  /\ UNCHANGED <<dash, an, trk, auth, storage, now, phase, ghostVars, libVars, basics, plVars, disco, ms>>

GenresProbeOk ==
  /\ phase = "genres" /\ pc = "gen_probe" /\ call.status = "ok"
  /\ LET genre == gen.toProbe[gen.pi]
         matched == AddGenreForEach(gen, genre, MatchedNames(call.last.payload))
         got == [matched EXCEPT !.probed = @ + 1, !.elapsed = Advance(@, PACING_MS)]
     IN  GenresProbeLoop(got, gen.pi + 1)
  /\ UNCHANGED <<dash, an, trk, auth, storage, now, phase, ghostVars, libVars, basics, plVars, disco, ms>>

GenresProbeCatch ==
  /\ phase = "genres" /\ pc = "gen_probe" /\ call.status = "err"
  /\ LET got == [gen EXCEPT !.probeFailed = @ \cup {gen.toProbe[gen.pi]}]
     IN  IF GenreCatchBreaks(call.err)
           THEN GenresReturn([got EXCEPT !.longBreak = TRUE])
           ELSE GenresProbeLoop(got, gen.pi + 1)
  /\ UNCHANGED <<dash, an, trk, auth, storage, now, phase, ghostVars, libVars, basics, plVars, disco, ms>>

\* ------------------------------------------------------- buildDiscography
\* upstream: the albums page of an artist and the tracks page of an album
AlbumsReturned(payload) ==
  CASE payload = "albums1" -> 1
    [] payload = "albums2" -> 2
    [] payload = "albums6" -> 6
    [] OTHER -> 0

\* heardTrackIds as given to buildDiscography, and tracksPage.items (the
\* ids of the tracks) of the album whose tracks page was fetched
DiscographyHeardTrackIds == {1, 2}

AlbumTracks(payload) ==
  CASE payload = "allheard" -> <<1, 2>>
    [] payload = "unheard1" -> <<1, 3>>
    [] payload = "unheard2" -> <<3, 4>>
    [] OTHER -> <<>>

\* tracksPage.items.length
AlbumTrackCount(payload) == Len(AlbumTracks(payload))

\* tracksPage.items.filter((t) => !heardTrackIds.has(t.id)).length
HeardCountOfAlbum(payload) ==
  Cardinality({k \in 1..Len(AlbumTracks(payload)) :
                 AlbumTracks(payload)[k] \in DiscographyHeardTrackIds})
UnheardCount(payload) ==
  Cardinality({k \in 1..Len(AlbumTracks(payload)) :
                 AlbumTracks(payload)[k] \notin DiscographyHeardTrackIds})

NewDiscography(n) ==
  [n |-> n, a |-> 0, albums |-> 0, b |-> 0, results |-> <<>>, errors |-> <<>>,
   scanned |-> 0, artistsTried |-> {}, albumsTried |-> {}, failedOn |-> {},
   albumsListed |-> {}, tracksOk |-> {}]

\* topArtistIds.slice(0, 5)
ArtistsToScanAll(n) == n
ArtistsToScan(n) == Min(n, ARTISTS_TO_SCAN)

\* the two catch blocks (albumErr, artistErr) log and let their loops go on
DiscographyCatchRethrows(e) == FALSE
DiscographyCatchContinues(e) == TRUE

\* results.sort((a, b) => b.unheardCount - a.unheardCount), a stable sort
RECURSIVE InsertByUnheard(_, _)
InsertByUnheard(sorted, x) ==
  IF sorted = <<>> THEN <<x>>
  ELSE IF Head(sorted).unheardCount >= x.unheardCount
    THEN <<Head(sorted)>> \o InsertByUnheard(Tail(sorted), x)
  ELSE <<x>> \o sorted

RECURSIVE SortByUnheard(_)
SortByUnheard(results) ==
  IF results = <<>> THEN <<>>
  ELSE InsertByUnheard(SortByUnheard(SubSeq(results, 1, Len(results) - 1)),
                       results[Len(results)])

DiscographyReturn(d) ==
  /\ disco' = [d EXCEPT !.results = SortByUnheard(d.results)]
  /\ call' = IdleCall
  /\ pc' = "return"
  /\ outcome' = Returned

\* the for loop over artistsToScan reaches artist number a (1-based)
DiscographyArtistLoop(d, a) ==
  IF a > ArtistsToScan(d.n) THEN DiscographyReturn(d)
  ELSE /\ disco' = [d EXCEPT !.a = a, !.b = 0, !.albums = 0,
                             !.artistsTried = @ \cup {a}]
       /\ StartCall("getArtistAlbums", a, TRUE)
       /\ pc' = "disco_albums"
       /\ outcome' = outcome

\* the for loop over albumsToCheck reaches album number b (1-based)
DiscographyAlbumLoop(d, b) ==
  IF b > d.albums
    THEN DiscographyArtistLoop([d EXCEPT !.scanned = @ + 1], d.a + 1)
    ELSE /\ disco' = [d EXCEPT !.b = b, !.albumsTried = @ \cup {<<d.a, b>>}]
         /\ StartCall("getAlbumTracks", b, TRUE)
         /\ pc' = "disco_tracks"
         /\ outcome' = outcome

BuildDiscographyBegin ==
  /\ phase = "discography" /\ pc = "disco_begin"
  /\ DiscographyArtistLoop(disco, 1)
  /\ UNCHANGED <<dash, an, trk, auth, storage, now, phase, ghostVars, libVars, basics, plVars, gen, ms>>

DiscographyAlbumsPage ==
  /\ phase = "discography" /\ pc = "disco_albums" /\ call.status = "ok"
  /\ LET items == AlbumsReturned(call.last.payload)
     IN  IF items = 0
           THEN DiscographyArtistLoop([disco EXCEPT !.scanned = @ + 1], disco.a + 1)
           ELSE DiscographyAlbumLoop(
                  [disco EXCEPT
                     !.albums = Min(items, ALBUMS_PER_ARTIST),
                     !.albumsListed = @ \cup {<<disco.a, b>> :
                                               b \in 1..Min(items, ALBUMS_PER_ARTIST)}], 1)
  /\ UNCHANGED <<dash, an, trk, auth, storage, now, phase, ghostVars, libVars, basics, plVars, gen, ms>>

DiscographyArtistCatch ==
  /\ phase = "discography" /\ pc = "disco_albums" /\ call.status = "err"
  /\ LET got == [disco EXCEPT !.errors = Append(@, [artist |-> disco.a, err |-> call.err]),
                              !.failedOn = @ \cup {<<disco.a, 0>>}]
     IN  IF DiscographyCatchContinues(call.err)
           THEN DiscographyArtistLoop(got, disco.a + 1)
           ELSE DiscographyReturn(got)
  /\ UNCHANGED <<dash, an, trk, auth, storage, now, phase, ghostVars, libVars, basics, plVars, gen, ms>>

DiscographyTracksPage ==
  /\ phase = "discography" /\ pc = "disco_tracks" /\ call.status = "ok"
  /\ LET payload == call.last.payload
         unheardCount == UnheardCount(payload)
         seen == [disco EXCEPT !.tracksOk = @ \cup {<<disco.a, disco.b, payload>>}]
         got == IF AlbumTrackCount(payload) > 0 /\ unheardCount > 0
                  THEN [seen EXCEPT !.results =
                          Append(@, [artistId |-> disco.a, albumId |-> disco.b,
                                     unheardCount |-> unheardCount])]
                  ELSE seen
     IN  DiscographyAlbumLoop(got, disco.b + 1)
  /\ UNCHANGED <<dash, an, trk, auth, storage, now, phase, ghostVars, libVars, basics, plVars, gen, ms>>

DiscographyAlbumCatch ==
  /\ phase = "discography" /\ pc = "disco_tracks" /\ call.status = "err"
  /\ LET got == [disco EXCEPT !.failedOn = @ \cup {<<disco.a, disco.b>>}]
     IN  IF DiscographyCatchContinues(call.err)
           THEN DiscographyAlbumLoop(got, disco.b + 1)
           ELSE DiscographyReturn(got)
  /\ UNCHANGED <<dash, an, trk, auth, storage, now, phase, ghostVars, libVars, basics, plVars, gen, ms>>

\* ------------------------------------------------ buildMainstreamAnalysis
\* upstream: what the search for a genre's top tracks returns (limit 10), each
\* track with its id and the ids of its artists
Track(id, artists) == [id |-> id, artists |-> artists]

SearchTracks(payload) ==
  CASE payload = "mixed" ->
         <<Track(1, {"artistA"}), Track(2, {"artistC"}), Track(3, {"artistC"}),
           Track(4, {"artistB"}), Track(5, {"artistA"}), Track(6, {"artistB", "artistA"}),
           Track(7, {"artistB"}), Track(8, {"artistC"}), Track(9, {"artistC"}),
           Track(10, {"artistB", "artistC"})>>
    [] payload = "unknown" ->
         [i \in 1..10 |-> Track(10 + i, {"artistC"})]
    [] payload = "few" ->
         <<Track(1, {"artistA"}), Track(5, {"artistA"}), Track(20, {"artistC"})>>
    [] OTHER -> <<>>

\* the heardTrackIds / heardArtistIds a caller passes in
HeardTrackInputs == {{}, 1..4}
HeardArtistInputs == {{}, {"artistA"}}

\* tracks.filter((t) => heardTracks.has(t.id)).length
HeardCount(tracks, heardTracks) ==
  Len(SelectSeq(tracks, LAMBDA t : t.id \in heardTracks))

\* tracks.filter((t) => t.artists.some((a) => heardArtists.has(a.id))
\*                      && !heardTracks.has(t.id)).length
KnownArtistCount(tracks, heardTracks, heardArtists) ==
  Len(SelectSeq(tracks, LAMBDA t : t.artists \cap heardArtists # {}
                                     /\ t.id \notin heardTracks))

\* the ids of the first three tracks neither heard nor by a known artist
UnheardExamples(tracks, heardTracks, heardArtists) ==
  LET gaps == SelectSeq(tracks, LAMBDA t : t.id \notin heardTracks
                                             /\ t.artists \cap heardArtists = {})
  IN  [i \in 1..Min(Len(gaps), 3) |-> gaps[i].id]

\* Math.round(x / y) for x >= 0, y > 0
RoundDiv(x, y) == (2 * x + y) \div (2 * y)

\* overlap = heardCount + knownArtistCount * 0.5;
\* overlapPercent = tracks.length > 0 ? Math.round((overlap / tracks.length) * 100) : 0
OverlapPercentFullWeight(searched, heardCount, knownArtistCount) ==
  IF searched > 0
    THEN RoundDiv(100 * (heardCount + knownArtistCount), searched)
    ELSE 0
OverlapPercent(searched, heardCount, knownArtistCount) ==
  IF searched > 0
    THEN RoundDiv(100 * (2 * heardCount + knownArtistCount), 2 * searched)
    ELSE 0

\* results.reduce((sum, r) => sum + f(r), 0) for the two sums of the score
RECURSIVE WeightedSum(_)
WeightedSum(results) ==
  IF results = <<>> THEN 0
  ELSE Head(results).overlapPercent * Head(results).searchedTracks
         + WeightedSum(Tail(results))
RECURSIVE WeightedTotal(_)
WeightedTotal(results) ==
  IF results = <<>> THEN 0
  ELSE Head(results).searchedTracks + WeightedTotal(Tail(results))

OverallScore(results) ==
  IF WeightedTotal(results) > 0
    THEN RoundDiv(WeightedSum(results), WeightedTotal(results))
    ELSE 0

MainstreamLabel(overallScore) ==
  IF overallScore >= 70 THEN "Chart Chaser"
  ELSE IF overallScore >= 55 THEN "Crowd Favorite"
  ELSE IF overallScore >= 40 THEN "Balanced Palette"
  ELSE IF overallScore >= 25 THEN "Crate Digger"
  ELSE "Deep Underground"

\* results.sort((a, b) => b.overlapPercent - a.overlapPercent): a stable sort,
\* as an insertion of each result behind those that are not smaller
InsertByOverlap(sorted, r) ==
  LET before == SelectSeq(sorted, LAMBDA x : x.overlapPercent >= r.overlapPercent)
      after == SelectSeq(sorted, LAMBDA x : x.overlapPercent < r.overlapPercent)
  IN  before \o <<r>> \o after
RECURSIVE SortByOverlap(_)
SortByOverlap(results) ==
  IF results = <<>> THEN <<>>
  ELSE InsertByOverlap(SortByOverlap(SubSeq(results, 1, Len(results) - 1)),
                       results[Len(results)])

\* n genres, the caller's heard sets, the locals of the loop and the result;
\* each result carries the tracks the search returned (not part of the
\* MainstreamGenreResult, kept to state what the counts count)
NewMainstream(n, heardTracks, heardArtists) ==
  [n |-> n, heardTracks |-> heardTracks, heardArtists |-> heardArtists,
   i |-> 0, results |-> <<>>, totalSearched |-> 0, totalOverlap |-> 0,
   overallScore |-> 0, label |-> "Unknown", tried |-> {}, failedOn |-> {}]

\* the catch inside the for loop warns and lets the loop go on
MainstreamCatchRethrows(e) == FALSE
MainstreamCatchContinues(e) == TRUE

MainstreamReturn(m) ==
  /\ ms' = [m EXCEPT !.overallScore = OverallScore(m.results),
                     !.label = MainstreamLabel(OverallScore(m.results)),
                     !.results = SortByOverlap(m.results)]
  /\ call' = IdleCall
  /\ pc' = "return"
  /\ outcome' = Returned

\* the for loop reaches topGenres[i] (1-based here)
MainstreamLoop(m, i) ==
  IF i > Min(m.n, MAINSTREAM_GENRES) THEN MainstreamReturn(m)
  ELSE /\ ms' = [m EXCEPT !.i = i, !.tried = @ \cup {i}]
       /\ StartCall("searchMainstream", i, i > 1)
       /\ pc' = "ms_search"
       /\ outcome' = outcome

BuildMainstreamBegin ==
  /\ phase = "mainstream" /\ pc = "ms_begin"
  /\ MainstreamLoop(ms, 1)
  /\ UNCHANGED <<dash, an, trk, auth, storage, now, phase, ghostVars, libVars, basics, plVars, gen, disco>>

MainstreamSearchOk ==
  /\ phase = "mainstream" /\ pc = "ms_search" /\ call.status = "ok"
  /\ LET tracks == SearchTracks(call.last.payload)
         heardCount == HeardCount(tracks, ms.heardTracks)
         knownArtistCount == KnownArtistCount(tracks, ms.heardTracks, ms.heardArtists)
         got == [ms EXCEPT
                   !.results = Append(@, [genre |-> ms.i, tracks |-> tracks,
                                          searchedTracks |-> Len(tracks),
                                          heardTracks |-> heardCount,
                                          knownArtistTracks |-> knownArtistCount,
                                          overlapPercent |->
                                            OverlapPercent(Len(tracks), heardCount,
                                                           knownArtistCount),
                                          unheardExamples |->
                                            UnheardExamples(tracks, ms.heardTracks,
                                                            ms.heardArtists)]),
                   !.totalSearched = @ + Len(tracks),
                   !.totalOverlap = @ + heardCount]
     IN  MainstreamLoop(got, ms.i + 1)
  /\ UNCHANGED <<dash, an, trk, auth, storage, now, phase, ghostVars, libVars, basics, plVars, gen, disco>>

MainstreamCatch ==
  /\ phase = "mainstream" /\ pc = "ms_search" /\ call.status = "err"
  /\ LET got == [ms EXCEPT !.failedOn = @ \cup {ms.i}]
     IN  IF MainstreamCatchContinues(call.err)
           THEN MainstreamLoop(got, ms.i + 1)
           ELSE MainstreamReturn(got)
  /\ UNCHANGED <<dash, an, trk, auth, storage, now, phase, ghostVars, libVars, basics, plVars, gen, disco>>

\* ============================================================= analysis
\* lib/profile-analysis.ts: pure functions of a completed profile.

\* Math.log2 of a whole number x >= 1, in units of 1/1024: the whole part by
\* halving, ten fractional bits by squaring the mantissa (kept as m / 16384).
\* The score computed with it is within 0.2 of the one computed in floating
\* point before rounding; for equal counts that are powers of two it is exact.
RECURSIVE FloorLog2(_)
FloorLog2(x) == IF x < 2 THEN 0 ELSE 1 + FloorLog2(x \div 2)

RECURSIVE Pow2(_)
Pow2(e) == IF e = 0 THEN 1 ELSE 2 * Pow2(e - 1)

RECURSIVE Log2Frac(_, _)
Log2Frac(m, bits) ==
  IF bits = 0 THEN 0
  ELSE LET sq == (m * m) \div 16384
       IN  IF sq >= 32768
             THEN Pow2(bits - 1) + Log2Frac(sq \div 2, bits - 1)
             ELSE Log2Frac(sq, bits - 1)

Log2Fixed(x) ==
  LET e == FloorLog2(x)
  IN  1024 * e + Log2Frac((x * 16384) \div Pow2(e), 10)

RECURSIVE Sum(_)
Sum(seq) == IF seq = <<>> THEN 0 ELSE Head(seq) + Sum(Tail(seq))

\* total * entropy, in units of 1/1024:
\*   for (count of values) { p = count / total; if (p > 0) entropy -= p * log2(p) }
RECURSIVE EntropyTimesTotal(_, _)
EntropyTimesTotal(freq, total) ==
  IF freq = <<>> THEN 0
  ELSE (IF Head(freq) > 0
          THEN Head(freq) * (Log2Fixed(total) - Log2Fixed(Head(freq)))
          ELSE 0)
       + EntropyTimesTotal(Tail(freq), total)

\* evenness = maxEntropy > 0 ? entropy / maxEntropy : 0, in thousandths
EvennessNotNormalized(freq, total, maxEntropy) ==
  (1000 * EntropyTimesTotal(freq, total)) \div (total * 1024)
Evenness(freq, total, maxEntropy) ==
  IF maxEntropy > 0
    THEN (1000 * EntropyTimesTotal(freq, total)) \div (total * maxEntropy)
    ELSE 0

\* if (genreCount <= 1) return { score: 5, label: 'Laser-Focused' }
NoGenreAtAll(genreCount) == genreCount < 1
AtMostOneGenre(genreCount) == genreCount <= 1

ExplorerLabel(score) ==
  IF score >= 80 THEN "Sonic Nomad"
  ELSE IF score >= 65 THEN "Adventurous Ear"
  ELSE IF score >= 45 THEN "Curious Listener"
  ELSE IF score >= 25 THEN "Comfort Cruiser"
  ELSE "Deep Specialist"

Max(a, b) == IF a >= b THEN a ELSE b

\* computeExplorerScore; freq holds the values of profile.genreFrequency
ComputeExplorerScore(freq) ==
  LET total == Sum(freq)
      genreCount == Len(freq)
  IN  IF total = 0 THEN [score |-> 0, label |-> "No data yet"]
      ELSE IF AtMostOneGenre(genreCount) THEN [score |-> 5, label |-> "Laser-Focused"]
      ELSE LET maxEntropy == Log2Fixed(genreCount)
               evenness == Evenness(freq, total, maxEntropy)
               genreBreadth == Min((1000 * genreCount) \div 30, 1000)
               raw == 60 * evenness + 40 * genreBreadth
               score == (Min(100000, Max(0, raw)) + 500) \div 1000
           IN  [score |-> score, label |-> ExplorerLabel(score)]

\* Dashboard, analyzeGenres: the explorer score and label it computes from
\* data.genreFrequency.  The entries are sorted by count first; the sums
\* taken over them do not depend on the order.
\*   maxEntropy = genreCount > 1 ? Math.log2(genreCount) : 1
AnalyzeGenresExplorer(freq) ==
  LET total == Sum(freq)
      genreCount == Len(freq)
      maxEntropy == IF genreCount > 1 THEN Log2Fixed(genreCount) ELSE 1024
      evenness == IF total > 0 THEN Evenness(freq, total, maxEntropy) ELSE 0
      breadth == Min((1000 * genreCount) \div 30, 1000)
      raw == 60 * evenness + 40 * breadth
      score == (Min(100000, Max(0, raw)) + 500) \div 1000
  IN  [score |-> score,
       label |-> IF genreCount = 0 THEN "No genre data" ELSE ExplorerLabel(score)]

\* const GENRE_ADJACENCY: Record<string, string[]>, read as
\* GENRE_ADJACENCY[userGenre] ?? []
GENRE_ADJACENCY(g) ==
  CASE g = "rock" -> <<"alt-rock", "indie", "grunge", "post-punk", "garage">>
    [] g = "alt-rock" -> <<"indie", "shoegaze", "post-punk", "grunge">>
    [] g = "indie" -> <<"indie-pop", "shoegaze", "lo-fi", "folk">>
    [] g = "indie-pop" -> <<"synth-pop", "dream-pop", "indie", "new wave">>
    [] g = "pop" -> <<"synth-pop", "indie-pop", "dance", "disco">>
    [] g = "hip-hop" -> <<"r-n-b", "trip-hop", "soul", "afrobeat">>
    [] g = "r-n-b" -> <<"neo-soul", "soul", "hip-hop", "funk">>
    [] g = "electronic" -> <<"house", "ambient", "synth-pop", "trip-hop", "dance">>
    [] g = "house" -> <<"disco", "dance", "electronic", "funk">>
    [] g = "jazz" -> <<"neo-soul", "bossa nova", "soul", "blues">>
    [] g = "soul" -> <<"neo-soul", "funk", "r-n-b", "blues">>
    [] g = "folk" -> <<"indie", "country", "blues", "acoustic">>
    [] g = "metal" -> <<"punk", "grunge", "alt-rock", "rock">>
    [] g = "punk" -> <<"post-punk", "ska", "grunge", "new wave">>
    [] g = "blues" -> <<"soul", "jazz", "folk", "funk">>
    [] g = "funk" -> <<"soul", "disco", "afrobeat", "r-n-b">>
    [] g = "classical" -> <<"ambient", "jazz">>
    [] g = "reggae" -> <<"ska", "afrobeat", "funk">>
    [] g = "country" -> <<"folk", "blues", "acoustic">>
    [] g = "ambient" -> <<"electronic", "lo-fi", "classical", "trip-hop">>
    [] g = "disco" -> <<"funk", "house", "dance", "pop">>
    [] g = "shoegaze" -> <<"dream-pop", "post-punk", "lo-fi", "ambient">>
    [] g = "post-punk" -> <<"new wave", "shoegaze", "punk", "synth-pop">>
    [] g = "synth-pop" -> <<"new wave", "electronic", "dance", "indie-pop">>
    [] g = "neo-soul" -> <<"soul", "r-n-b", "jazz", "funk">>
    [] g = "trip-hop" -> <<"electronic", "ambient", "hip-hop">>
    [] g = "lo-fi" -> <<"indie", "ambient", "shoegaze">>
    [] g = "afrobeat" -> <<"funk", "reggae", "hip-hop">>
    [] g = "ska" -> <<"punk", "reggae">>
    [] g = "grunge" -> <<"alt-rock", "punk", "rock">>
    [] g = "new wave" -> <<"post-punk", "synth-pop", "indie-pop">>
    [] g = "dance" -> <<"house", "electronic", "disco", "pop">>
    [] OTHER -> <<>>

AdjacencyKeys ==
  <<"rock", "alt-rock", "indie", "indie-pop", "pop", "hip-hop", "r-n-b",
    "electronic", "house", "jazz", "soul", "folk", "metal", "punk", "blues",
    "funk", "classical", "reggae", "country", "ambient", "disco", "shoegaze",
    "post-punk", "synth-pop", "neo-soul", "trip-hop", "lo-fi", "afrobeat",
    "ska", "grunge", "new wave", "dance">>

\* SPOTIFY_GENRES (lib/genres): the canonical genre catalog, an array of
\* labels.  The analysis only asks whether it includes a label and filters
\* it, so any list of distinct labels stands for it.
Catalogs ==
  {<<>>, <<"grunge", "jazz", "k-pop">>, AdjacencyKeys,
   AdjacencyKeys \o <<"garage", "dream-pop", "bossa nova", "acoustic", "k-pop">>}

\* spots.find((s) => s.genre === g)
HasSpot(spots, g) == \E i \in 1..Len(spots) : spots[i].genre = g

\* the inner loop "for (const adj of adjacent)"
RECURSIVE AddAdjacent(_, _, _, _, _)
AddAdjacent(spots, userGenre, adjacent, known, catalog) ==
  IF adjacent = <<>> THEN spots
  ELSE LET adj == Head(adjacent)
           next == IF adj \notin Range(known) /\ adj \in Range(catalog)
                        /\ ~HasSpot(spots, adj)
                     THEN Append(spots, [genre |-> adj, reason |-> "adjacent",
                                         adjacentTo |-> userGenre])
                     ELSE spots
       IN  AddAdjacent(next, userGenre, Tail(adjacent), known, catalog)

\* the outer loop "for (const userGenre of known)"; rest is what is left of it
RECURSIVE AdjacentSpots(_, _, _, _)
AdjacentSpots(spots, rest, known, catalog) ==
  IF rest = <<>> THEN spots
  ELSE AdjacentSpots(
         AddAdjacent(spots, Head(rest), GENRE_ADJACENCY(Head(rest)), known, catalog),
         Tail(rest), known, catalog)

\* SPOTIFY_GENRES.filter((g) => !known.has(g) && !spots.find((s) => s.genre === g))
MainGenres(spots, known, catalog) ==
  SelectSeq(catalog, LAMBDA g : g \notin Range(known) /\ ~HasSpot(spots, g))

\* mainGenres.sort(() => Math.random() - 0.5): some permutation; the model
\* takes the rotations and the reversal
Rotate(seq, k) == SubSeq(seq, k + 1, Len(seq)) \o SubSeq(seq, 1, k)
Reverse(seq) == [i \in 1..Len(seq) |-> seq[Len(seq) + 1 - i]]
Shuffles(seq) ==
  {Rotate(seq, k) : k \in 0..Min(MaxRotation, Len(seq))} \cup {Reverse(seq)}

\* shuffled.slice(0, 5), each pushed as { genre, reason: 'untouched' }
UNTOUCHED_PICKS == 5
MAX_BLIND_SPOTS == 12

Untouched(shuffled) ==
  [i \in 1..Min(UNTOUCHED_PICKS, Len(shuffled)) |->
     [genre |-> shuffled[i], reason |-> "untouched", adjacentTo |-> "none"]]

\* spots.sort(adjacent first), a stable sort
UntouchedFirst(spots) ==
  SelectSeq(spots, LAMBDA x : x.reason # "adjacent")
    \o SelectSeq(spots, LAMBDA x : x.reason = "adjacent")
AdjacentFirst(spots) ==
  SelectSeq(spots, LAMBDA x : x.reason = "adjacent")
    \o SelectSeq(spots, LAMBDA x : x.reason # "adjacent")

\* computeBlindSpots, given the permutation the shuffle produced
ComputeBlindSpots(known, catalog, shuffled) ==
  LET adjacent == AdjacentSpots(<<>>, known, known, catalog)
      spots == AdjacentFirst(adjacent \o Untouched(shuffled))
  IN  SubSeq(spots, 1, Min(MAX_BLIND_SPOTS, Len(spots)))

\* inputs: the values of genreFrequency (n genres of the same count, or a
\* few uneven ones), and profile.knownGenres in insertion order
EvenFrequencies(n, count) == [i \in 1..n |-> count]

Frequencies ==
  {EvenFrequencies(n, count) : n \in 0..MaxGenreCount, count \in 1..2}
    \cup {<<0>>, <<0, 0>>, <<3>>, <<3, 0>>, <<1, 2>>, <<2, 1, 1>>}

KnownPool == {"rock", "pop", "jazz", "electronic", "k-pop"}

KnownGenres ==
  UNION {{k \in [1..n -> KnownPool] : \A i, j \in 1..n : i # j => k[i] # k[j]} :
           n \in 0..MaxKnown}

NoAnalysis == [score |-> -1, label |-> "", spots |-> <<>>]

AnalysisInput(fn, freq, known, catalog) ==
  [fn |-> fn, stage |-> "input", freq |-> freq, known |-> known,
   catalog |-> catalog, shuffled |-> <<>>, score |-> NoAnalysis.score,
   label |-> NoAnalysis.label, spots |-> NoAnalysis.spots]

IdleAnalysis == AnalysisInput("none", <<>>, <<>>, <<>>)

\* analyzeProfile: const { score, label } = computeExplorerScore(profile)
AnalyzeExplorerScore ==
  /\ phase = "analysis"
  /\ an.fn = "computeExplorerScore" /\ an.stage = "input"
  /\ LET r == ComputeExplorerScore(an.freq)
     IN  an' = [an EXCEPT !.stage = "done", !.score = r.score, !.label = r.label]
  /\ UNCHANGED <<builderVars, dash, trk, auth, storage, now>>

\* Dashboard: analyzeGenres(data) on the genres response
AnalyzeGenres ==
  /\ phase = "analysis"
  /\ an.fn = "analyzeGenres" /\ an.stage = "input"
  /\ LET r == AnalyzeGenresExplorer(an.freq)
     IN  an' = [an EXCEPT !.stage = "done", !.score = r.score, !.label = r.label]
  /\ UNCHANGED <<builderVars, dash, trk, auth, storage, now>>

\* analyzeProfile: const blindSpots = computeBlindSpots(profile)
AnalyzeBlindSpots ==
  /\ phase = "analysis"
  /\ an.fn = "computeBlindSpots" /\ an.stage = "input"
  /\ \E shuffled \in Shuffles(MainGenres(AdjacentSpots(<<>>, an.known, an.known,
                                                       an.catalog),
                                         an.known, an.catalog)) :
       an' = [an EXCEPT !.stage = "done", !.shuffled = shuffled,
                        !.spots = ComputeBlindSpots(an.known, an.catalog, shuffled)]
  /\ UNCHANGED <<builderVars, dash, trk, auth, storage, now>>

\* ========================================================== processTrack
\* A release_date as the characters of the string ("1994-03-01": precision
\* day; "1994": precision year; "0000": unknown to the upstream).
Digits == <<"0", "1", "2", "3", "4", "5", "6", "7", "8", "9">>
IsDigit(ch) == \E d \in 1..10 : Digits[d] = ch
DigitValue(ch) == (CHOOSE d \in 1..10 : Digits[d] = ch) - 1

\* releaseDate.slice(0, 4)
Slice04(chars) == SubSeq(chars, 1, Min(4, Len(chars)))

\* parseInt(text, 10) of a text without sign or leading blanks: the digits up
\* to the first other character; NaN when there is none
RECURSIVE LeadingDigits(_)
LeadingDigits(chars) ==
  IF chars = <<>> \/ ~IsDigit(Head(chars)) THEN <<>>
  ELSE <<Head(chars)>> \o LeadingDigits(Tail(chars))

RECURSIVE DecimalValue(_)
DecimalValue(digits) ==
  IF digits = <<>> THEN 0
  ELSE 10 * DecimalValue(SubSeq(digits, 1, Len(digits) - 1))
         + DigitValue(digits[Len(digits)])

ParseInt(chars) ==
  LET digits == LeadingDigits(chars)
  IN  [isNaN |-> digits = <<>>, value |-> DecimalValue(digits)]

\* !isNaN(year) && year > 1900 && year <= new Date().getFullYear() + 1
SaneYearFrom1900(year, currentYear) ==
  ~year.isNaN /\ year.value >= 1900 /\ year.value <= currentYear + 1
SaneYear(year, currentYear) ==
  ~year.isNaN /\ year.value > 1900 /\ year.value <= currentYear + 1

\* `${Math.floor(year / 10) * 10}s`
DecadeOf(year) == <<(year \div 10) * 10, "s">>

Chars(a, b, c, d) == <<a, b, c, d>>
DayOf(year4) == year4 \o <<"-", "0", "3", "-", "0", "1">>

\* the release dates the upstream sends; <<>> is a track without one
ReleaseDates ==
  {<<>>,
   DayOf(Chars("1", "9", "9", "4")), DayOf(Chars("1", "8", "5", "0")),
   Chars("1", "9", "0", "0"), Chars("1", "9", "0", "1"), Chars("1", "9", "9", "9"),
   Chars("0", "0", "0", "0"), <<"1", "9">>, <<"u", "n", "k", "n", "o", "w", "n">>,
   DayOf(Chars("2", "0", "2", "7")), Chars("2", "0", "2", "8")}

CurrentYears == {2026, 2027}
ProcessedTrackIds == {"", "trackA", "trackB"}

SpotifyTracks == [id : ProcessedTrackIds, releaseDate : ReleaseDates]
NoTrack == [id |-> "", releaseDate |-> <<>>]

\* the accumulators a phase builder creates, before the first track
NewAccumulators(currentYear) ==
  [currentYear |-> currentYear, trackIds |-> {}, releaseYears |-> <<>>,
   decadeDistribution |-> <<>>, processed |-> 0, track |-> NoTrack]
IdleTrack == NewAccumulators(0)

\* decadeDistribution as the sequence of its entries <<decade, count>>, in
\* insertion order: decadeDistribution.get(decade) ?? 0
DecadeCount(dd, decade) ==
  IF \E i \in 1..Len(dd) : dd[i][1] = decade
    THEN (CHOOSE e \in Range(dd) : e[1] = decade)[2]
    ELSE 0

\* decadeDistribution.set(decade, n)
DecadeSet(dd, decade, n) ==
  IF \E i \in 1..Len(dd) : dd[i][1] = decade
    THEN [i \in 1..Len(dd) |-> IF dd[i][1] = decade THEN <<decade, n>> ELSE dd[i]]
    ELSE Append(dd, <<decade, n>>)

\* processTrack(track, trackIds, ..., decadeDistribution, releaseYears)
ProcessTrackInto(acc, track) ==
  IF track.id = "" THEN acc
  ELSE LET withId == [acc EXCEPT !.trackIds = @ \cup {track.id}]
           year == ParseInt(Slice04(track.releaseDate))
       IN  IF track.releaseDate # <<>> /\ SaneYear(year, acc.currentYear)
             THEN [withId EXCEPT
                     !.releaseYears = Append(@, year.value),
                     !.decadeDistribution =
                        DecadeSet(@, DecadeOf(year.value),
                                  DecadeCount(@, DecadeOf(year.value)) + 1)]
             ELSE withId

ProcessTrack ==
  /\ phase = "processTrack"
  /\ trk.processed < MaxProcessed
  /\ \E track \in SpotifyTracks :
       trk' = [ProcessTrackInto(trk, track) EXCEPT !.processed = trk.processed + 1,
                                                   !.track = track]
  /\ UNCHANGED <<builderVars, dash, an, auth, storage, now>>

\* ================================================= auth.ts, profile cache
\* A session as stored under 'earlove_session'; accessToken 0 is the empty
\* string, expiresAt 0 a missing expiry.
NoSession == [present |-> FALSE, accessToken |-> 0, expiresAt |-> 0]
Session(accessToken, expiresAt) ==
  [present |-> TRUE, accessToken |-> accessToken, expiresAt |-> expiresAt]

\* what the server grants on a refresh: an hour
GrantedLifetime == 12 * REFRESH_BUFFER_MS

StoredSessions ==
  {NoSession, Session(0, GrantedLifetime), Session(1, 0),
   Session(1, REFRESH_BUFFER_MS \div 3), Session(1, GrantedLifetime)}

\* getSession(): null without an entry; an entry without accessToken is
\* removed and null is returned
GetSession(stored) ==
  IF stored.present /\ stored.accessToken # 0 THEN stored ELSE NoSession

\* needsRefresh(session)
NeedsRefresh(session, t) ==
  IF session.expiresAt = 0 THEN FALSE
  ELSE t > session.expiresAt - REFRESH_BUFFER_MS

\* isExpired(session)
IsExpired(session, t) ==
  IF session.expiresAt = 0 THEN FALSE ELSE t > session.expiresAt

\* if (refreshPromise) return refreshPromise;    (0 is null)
RefreshNeverInFlight(refreshPromise) == FALSE
RefreshInFlight(refreshPromise) == refreshPromise # 0

\* the components that mounted useSession(): each calls getValidSession()
Callers == {"useSessionA", "useSessionB"}

IdleCaller ==
  [pc |-> "idle", calls |-> 0, session |-> NoSession, awaiting |-> 0,
   result |-> NoSession, needed |-> FALSE, refreshFailed |-> FALSE,
   inFlightAtCall |-> 0]

\* refreshPromise, the promises refreshAccessToken has created (each the
\* async function of one request: pending until the request is answered),
\* and what each caller of getValidSession is doing
IdleAuth ==
  [refreshPromise |-> 0, promises |-> <<>>, callers |-> [c \in Callers |-> IdleCaller]]

Pending == {p \in 1..Len(auth.promises) : auth.promises[p].state = "pending"}

\* the profile cache entry under 'earlove_profile_v2'
NoEntry == [present |-> FALSE, timestamp |-> 0]
Entry(timestamp) == [present |-> TRUE, timestamp |-> timestamp]

NoLoad == [called |-> FALSE, at |-> 0, found |-> NoEntry, result |-> NoEntry]

IdleStorage == [session |-> NoSession, profile |-> NoEntry, lastLoad |-> NoLoad]

\* Date.now() - cached.timestamp > TTL_MS
CacheNeverExpired(entry, t) == FALSE
CacheExpired(entry, t) == t - entry.timestamp > TTL_MS

\* getValidSession() up to its first await, or to its return when it does not
\* await; refreshAccessToken(session) is called when needsRefresh(session)
GetValidSession(c) ==
  /\ phase = "session"
  /\ auth.callers[c].pc # "awaiting"
  /\ auth.callers[c].calls < MaxCalls
  /\ LET session == GetSession(storage.session)
         me == [IdleCaller EXCEPT !.calls = auth.callers[c].calls + 1,
                                  !.session = session,
                                  !.inFlightAtCall = auth.refreshPromise]
     IN  IF ~session.present
           THEN /\ auth' = [auth EXCEPT !.callers[c] = [me EXCEPT !.pc = "done"]]
                /\ storage' = [storage EXCEPT !.session = NoSession]
         ELSE IF ~NeedsRefresh(session, now)
           THEN /\ auth' = [auth EXCEPT
                              !.callers[c] = [me EXCEPT !.pc = "done", !.result = session]]
                /\ storage' = storage
         ELSE IF RefreshInFlight(auth.refreshPromise)
           THEN /\ auth' = [auth EXCEPT
                              !.callers[c] = [me EXCEPT !.pc = "awaiting", !.needed = TRUE,
                                                        !.awaiting = auth.refreshPromise]]
                /\ storage' = storage
         ELSE /\ Len(auth.promises) < MaxRefreshes
              /\ auth' = [auth EXCEPT
                            !.promises = Append(@, [state |-> "pending", session |-> session,
                                                    result |-> NoSession]),
                            !.refreshPromise = Len(auth.promises) + 1,
                            !.callers[c] = [me EXCEPT !.pc = "awaiting", !.needed = TRUE,
                                                      !.awaiting = Len(auth.promises) + 1]]
              /\ storage' = storage
  /\ UNCHANGED <<builderVars, dash, an, trk, now>>

\* POST /api/auth/refresh is answered (or fetch throws): the async function
\* of the promise runs to its end, the finally included
RefreshAnswered ==
  /\ phase = "session"
  /\ \E p \in Pending, ok \in BOOLEAN :
       LET updated == Session(auth.promises[p].session.accessToken + 1,
                              now + GrantedLifetime)
       IN  /\ auth' = [auth EXCEPT
                         !.promises[p] = [@ EXCEPT !.state = "settled",
                                                   !.result = IF ok THEN updated
                                                              ELSE NoSession],
                         !.refreshPromise = 0]
           /\ storage' = IF ok THEN [storage EXCEPT !.session = updated] ELSE storage
  /\ UNCHANGED <<builderVars, dash, an, trk, now>>

\* getValidSession() from "const refreshed = await ..." on
SessionResumes(c) ==
  /\ phase = "session"
  /\ auth.callers[c].pc = "awaiting"
  /\ auth.promises[auth.callers[c].awaiting].state = "settled"
  /\ LET me == auth.callers[c]
         refreshed == auth.promises[me.awaiting].result
     IN  IF ~refreshed.present
           THEN IF IsExpired(me.session, now)
                  THEN /\ auth' = [auth EXCEPT
                                     !.callers[c] = [me EXCEPT !.pc = "done",
                                                               !.refreshFailed = TRUE,
                                                               !.result = NoSession]]
                       /\ storage' = [storage EXCEPT !.session = NoSession]
                  ELSE /\ auth' = [auth EXCEPT
                                     !.callers[c] = [me EXCEPT !.pc = "done",
                                                               !.refreshFailed = TRUE,
                                                               !.result = me.session]]
                       /\ storage' = storage
           ELSE /\ auth' = [auth EXCEPT
                              !.callers[c] = [me EXCEPT !.pc = "done", !.result = refreshed]]
                /\ storage' = storage
  /\ UNCHANGED <<builderVars, dash, an, trk, now>>

\* saveCache(snapshot) with timestamp: Date.now()
SaveCache ==
  /\ phase = "cache"
  /\ storage.profile # Entry(now)
  /\ storage' = [storage EXCEPT !.profile = Entry(now)]
  /\ UNCHANGED <<builderVars, dash, an, trk, auth, now>>

\* loadCache()
LoadCache ==
  /\ phase = "cache"
  /\ LET cached == storage.profile
         expired == cached.present /\ CacheExpired(cached, now)
     IN  storage' = [storage EXCEPT
                       !.profile = IF expired THEN NoEntry ELSE @,
                       !.lastLoad = [called |-> TRUE, at |-> now, found |-> cached,
                                     result |-> IF cached.present /\ ~expired
                                                  THEN cached ELSE NoEntry]]
  /\ storage' # storage
  /\ UNCHANGED <<builderVars, dash, an, trk, auth, now>>

\* clearCache()
ClearCache ==
  /\ phase = "cache"
  /\ storage.profile.present
  /\ storage' = [storage EXCEPT !.profile = NoEntry]
  /\ UNCHANGED <<builderVars, dash, an, trk, auth, now>>

\* time passes: a few minutes, or half a day; Ticks counts the small steps
\* of a time, so the guard of Tick bounds the number of steps taken so far
TickSteps == {REFRESH_BUFFER_MS \div 2, TTL_MS \div 2}
Ticks(t) == t \div (REFRESH_BUFFER_MS \div 2)

Tick ==
  /\ phase \in {"session", "cache"}
  /\ \E d \in TickSteps :
       /\ (Ticks(now) % Ticks(TTL_MS \div 2)) + (Ticks(now) \div Ticks(TTL_MS \div 2))
            < MaxTicks
       /\ now' = now + d
  /\ UNCHANGED <<builderVars, dash, an, trk, auth, storage>>

\* ============================================================ Dashboard
\* The Dashboard component: the aggregated heard sets and the phase statuses.
\* The routes answer with what the phase builders returned; here a phase
\* output is any pair of identifier sets.  A request stays in flight when a
\* handler resets the statuses, so its answer is still merged afterwards.
TrackIds == 1..MaxIds
ArtistIds == {"artistA", "artistB"}

PhaseOutputs == [trackIds : SUBSET TrackIds, artistIds : SUBSET ArtistIds]
NoOutput == [trackIds |-> {}, artistIds |-> {}]

\* setHeardTracks((prev) => { const next = new Set(prev);
\*                            data.trackIds.forEach((id) => next.add(id)); return next; })
MergeIdsToggling(prev, ids) == (prev \ ids) \cup (ids \ prev)
MergeIds(prev, ids) == prev \cup ids

\* setHeardTracks(new Set(data.trackIds)) of loadBasics
BasicsIds(prev, ids) == ids

\* what the basics route may answer: the result (with or without warnings),
\* the long cooldown, a rate limit, another error
BasicsAnswers == {"ok", "ok_warnings", "rate_limit_long", "rate_limit", "error"}

\* what loadCache() returns when the session arrives: null (nothing stored,
\* an entry past its time to live, or one whose basics were not done) or a
\* profile with phasesDone.basics
NoCache ==
  [present |-> FALSE, heard |-> NoOutput, libraryDone |-> FALSE,
   playlistsDone |-> FALSE]
CachedProfiles ==
  [present : {TRUE}, heard : PhaseOutputs, libraryDone : BOOLEAN,
   playlistsDone : BOOLEAN]

\* the component as first rendered: no session yet, nothing loaded.
\* When traced, libraryReturned and playlistsReturned record the ids that the
\* responses to the last loadLibrary and loadPlaylists carried.
IdleDash ==
  [mounted |-> FALSE, cached |-> NoCache,
   basicsStatus |-> "idle", libraryStatus |-> "idle", playlistsStatus |-> "idle",
   heardTracks |-> {}, heardArtists |-> {}, warnings |-> FALSE, user |-> FALSE,
   cachedAt |-> FALSE, restoredFromCache |-> FALSE, rateLimited |-> FALSE,
   basicsInFlight |-> 0, libraryInFlight |-> FALSE, chunk |-> 0,
   playlistsInFlight |-> FALSE, lastMerged |-> NoOutput,
   traced |-> FALSE, libraryReturned |-> NoOutput, playlistsReturned |-> NoOutput]

\* the ids the responses of a phase have carried so far, with one more response
IdsReturned(d, sofar, data) ==
  IF d.traced
    THEN [trackIds |-> sofar.trackIds \cup data.trackIds,
          artistIds |-> sofar.artistIds \cup data.artistIds]
    ELSE sofar

\* the state updates the cache-restore effect queues for a cached profile
RestoredDash(d, cached) ==
  [d EXCEPT !.basicsStatus = "done",
            !.libraryStatus = IF cached.libraryDone THEN "done" ELSE "idle",
            !.playlistsStatus = IF cached.playlistsDone THEN "done" ELSE "idle",
            !.heardTracks = cached.heard.trackIds,
            !.heardArtists = cached.heard.artistIds,
            !.user = TRUE, !.cachedAt = TRUE, !.restoredFromCache = TRUE]

\* the state updates loadBasics queues before its fetch, and the fetch
LoadBasicsStarted(d) ==
  [d EXCEPT !.basicsStatus = "loading", !.warnings = FALSE, !.basicsInFlight = @ + 1]

\* rateLimitUntil && Date.now() < rateLimitUntil
CooldownNeverActive(d) == FALSE
CooldownActive(d) == d.rateLimited

\* loadBasics up to its fetch, as the callback of the render `rendered`; its
\* state updates are queued behind those already in d
LoadBasicsCalled(rendered, d) ==
  IF rendered.basicsStatus = "loading" THEN d
  ELSE IF CooldownActive(rendered) THEN [d EXCEPT !.basicsStatus = "error"]
  ELSE LoadBasicsStarted(d)

\* the effect "Auto-load basics if no cache"
AutoLoadEffect(rendered, d) ==
  IF rendered.basicsStatus = "idle" /\ ~rendered.restoredFromCache
       /\ ~CooldownActive(rendered)
    THEN LoadBasicsCalled(rendered, d)
    ELSE d

\* the effect "Trigger basics load after refresh"
RefreshEffect(rendered, d) ==
  IF rendered.basicsStatus = "idle" /\ ~rendered.restoredFromCache
       /\ ~rendered.user /\ ~rendered.cachedAt /\ ~CooldownActive(rendered)
    THEN LoadBasicsCalled(rendered, d)
    ELSE d

\* The commit of a render in which basicsStatus has changed: both effects
\* have basicsStatus among their dependencies and run one after the other,
\* each with the values of that render.
BasicsStatusEffects(rendered) ==
  RefreshEffect(rendered, AutoLoadEffect(rendered, rendered))

\* The commit in which useSession delivers the session: the effects that
\* depend on it run one after the other, each with the values of the render
\* that scheduled them (basicsStatus 'idle', restoredFromCache false, no
\* cooldown).  The cache-restore effect queues its updates; the auto-load
\* effect does not see them, passes its guard and calls loadBasics, whose
\* updates are queued behind them.  What loadCache returned is not looked at
\* again.
DashMount ==
  /\ phase = "dashboard"
  /\ ~dash.mounted
  /\ LET rendered == dash
         restored == IF rendered.basicsStatus = "idle" /\ rendered.cached.present
                       THEN RestoredDash(dash, rendered.cached)
                       ELSE dash
     IN  dash' = [AutoLoadEffect(rendered, restored)
                    EXCEPT !.mounted = TRUE, !.cached = NoCache]
  /\ UNCHANGED <<builderVars, an, trk, auth, storage, now>>

\* loadBasics called by the "Retry basics" button under the warnings
DashLoadBasics ==
  /\ phase = "dashboard"
  /\ dash.mounted
  /\ dash.basicsStatus = "done" /\ dash.warnings
  /\ dash.basicsInFlight + 1 <= MaxBasicsFetches
  /\ dash' = LoadBasicsCalled(dash, dash)
  /\ UNCHANGED <<builderVars, an, trk, auth, storage, now>>

\* loadBasics from the answer of the route on
DashBasicsAnswerFrom(outputs) ==
  /\ phase = "dashboard"
  /\ dash.basicsInFlight > 0
  /\ \E answer \in BasicsAnswers, data \in outputs :
       /\ answer \notin {"ok", "ok_warnings"} => data = NoOutput
       /\ dash' =
            CASE answer \in {"ok", "ok_warnings"} ->
                   [dash EXCEPT
                      !.basicsInFlight = @ - 1, !.user = TRUE, !.cachedAt = TRUE,
                      !.heardTracks = BasicsIds(@, data.trackIds),
                      !.heardArtists = BasicsIds(@, data.artistIds),
                      !.warnings = (answer = "ok_warnings"),
                      !.rateLimited = FALSE, !.basicsStatus = "done",
                      !.lastMerged = NoOutput]
              [] answer \in {"rate_limit_long", "rate_limit"} ->
                   [dash EXCEPT !.basicsInFlight = @ - 1, !.rateLimited = TRUE,
                                !.basicsStatus = "error"]
              [] OTHER ->
                   [dash EXCEPT !.basicsInFlight = @ - 1, !.basicsStatus = "error"]
  /\ UNCHANGED <<builderVars, an, trk, auth, storage, now>>

\* The buttons of the error view, and the commit that follows.  "skip
\* cooldown and try now" (shown while rateLimitCountdown > 0) clears the
\* cooldown; "try again" (shown while rateLimitCountdown is 0, which it still
\* is in the render that precedes the first tick of the countdown effect)
\* leaves rateLimitUntil as it is.
DashTryAgain ==
  /\ phase = "dashboard"
  /\ dash.basicsStatus = "error"
  /\ dash.basicsInFlight + 2 <= MaxBasicsFetches
  /\ \E skip \in BOOLEAN :
       /\ skip => dash.rateLimited
       /\ dash' = BasicsStatusEffects(
                    [dash EXCEPT !.basicsStatus = "idle",
                                 !.rateLimited = IF skip THEN FALSE ELSE @])
  /\ UNCHANGED <<builderVars, an, trk, auth, storage, now>>

\* Date.now() passes rateLimitUntil: the next tick of the countdown effect
\* does setRateLimitUntil(null), and the auto-load effect, which depends on
\* rateLimitUntil, runs again
DashCooldownOver ==
  /\ phase = "dashboard"
  /\ dash.rateLimited
  /\ dash.basicsInFlight + 1 <= MaxBasicsFetches
  /\ LET rendered == [dash EXCEPT !.rateLimited = FALSE]
     IN  dash' = AutoLoadEffect(rendered, rendered)
  /\ UNCHANGED <<builderVars, an, trk, auth, storage, now>>

\* loadLibrary up to its first fetch ("Scan Library", shown once basics are done)
DashLoadLibrary ==
  /\ phase = "dashboard"
  /\ dash.basicsStatus = "done"
  /\ dash.libraryStatus \in {"idle", "error"}
  /\ ~dash.libraryInFlight
  /\ dash' = [dash EXCEPT !.libraryStatus = "loading", !.libraryInFlight = TRUE,
                          !.chunk = 0, !.libraryReturned = NoOutput]
  /\ UNCHANGED <<builderVars, an, trk, auth, storage, now>>

\* loadLibrary: one turn of "while (nextOffset !== null)": the chunk is
\* merged; then the next fetch, or the scan is done; or the fetch failed
DashLibraryChunkFrom(outputs) ==
  /\ phase = "dashboard"
  /\ dash.libraryInFlight
  /\ \E ok \in BOOLEAN, data \in outputs, more \in BOOLEAN :
       /\ ~ok => (data = NoOutput /\ ~more)
       /\ more => dash.chunk + 1 < MaxChunks
       /\ dash' =
            IF ok
              THEN [dash EXCEPT
                      !.heardTracks = MergeIds(@, data.trackIds),
                      !.heardArtists = MergeIds(@, data.artistIds),
                      !.lastMerged = data,
                      !.libraryReturned = IdsReturned(dash, @, data),
                      !.chunk = @ + 1,
                      !.libraryInFlight = more,
                      !.libraryStatus = IF more THEN @ ELSE "done"]
              ELSE [dash EXCEPT !.libraryInFlight = FALSE, !.libraryStatus = "error"]
  /\ UNCHANGED <<builderVars, an, trk, auth, storage, now>>

\* loadPlaylists up to its fetch
DashLoadPlaylists ==
  /\ phase = "dashboard"
  /\ dash.basicsStatus = "done"
  /\ dash.playlistsStatus # "loading"
  /\ ~dash.playlistsInFlight
  /\ dash' = [dash EXCEPT !.playlistsStatus = "loading", !.playlistsInFlight = TRUE,
                          !.playlistsReturned = NoOutput]
  /\ UNCHANGED <<builderVars, an, trk, auth, storage, now>>

\* loadPlaylists from the answer of the route on
DashPlaylistsAnswerFrom(outputs) ==
  /\ phase = "dashboard"
  /\ dash.playlistsInFlight
  /\ \E ok \in BOOLEAN, data \in outputs :
       /\ ~ok => data = NoOutput
       /\ dash' =
            IF ok
              THEN [dash EXCEPT
                      !.heardTracks = MergeIds(@, data.trackIds),
                      !.heardArtists = MergeIds(@, data.artistIds),
                      !.lastMerged = data,
                      !.playlistsReturned = IdsReturned(dash, NoOutput, data),
                      !.playlistsInFlight = FALSE, !.playlistsStatus = "done"]
              ELSE [dash EXCEPT !.playlistsInFlight = FALSE, !.playlistsStatus = "error"]
  /\ UNCHANGED <<builderVars, an, trk, auth, storage, now>>

\* the answers of the routes, any phase output
DashBasicsAnswer == DashBasicsAnswerFrom(PhaseOutputs)
DashLibraryChunk == DashLibraryChunkFrom(PhaseOutputs)
DashPlaylistsAnswer == DashPlaylistsAnswerFrom(PhaseOutputs)

\* the same with phase outputs that share no id: a first one, a second one,
\* an empty one
DisjointOutputs ==
  {NoOutput, [trackIds |-> {1}, artistIds |-> {"artistA"}],
   [trackIds |-> {2}, artistIds |-> {"artistB"}]}

\* handleRefresh: "[refresh all data]", and the commit that follows
DashHandleRefresh ==
  /\ phase = "dashboard"
  /\ dash.basicsStatus = "done"
  /\ dash.basicsInFlight + 2 <= MaxBasicsFetches
  /\ dash' = BasicsStatusEffects(
               [dash EXCEPT
                  !.restoredFromCache = FALSE, !.cachedAt = FALSE,
                  !.basicsStatus = "idle",
                  !.libraryStatus = "idle", !.playlistsStatus = "idle",
                  !.heardTracks = {}, !.heardArtists = {}, !.warnings = FALSE,
                  !.user = FALSE, !.lastMerged = NoOutput])
  /\ UNCHANGED <<builderVars, an, trk, auth, storage, now>>

\* ------------------------------------------------------------------ Init
InitLibrary ==
  /\ libTotal \in LibTotals
  /\ \E so \in StartOffsets, mp \in PageCaps, th \in BOOLEAN :
       /\ lib = NewLibrary(IF th THEN 0 ELSE so, mp)
       /\ loader = [IdleLoader EXCEPT !.threaded = th,
                                      !.status = IF th THEN "loading" ELSE "idle"]

NoLibrary ==
  /\ libTotal = 0
  /\ lib = NewLibrary(0, DEFAULT_MAX_PAGES)
  /\ loader = IdleLoader

InitPlaylists ==
  /\ \E n \in PlaylistCounts, own \in SUBSET PlaylistPositions :
       /\ own \subseteq 1..n
       /\ plUp = [count |-> n, owned |-> own]
  /\ pl = IdlePlaylists

NoPlaylists ==
  /\ plUp = [count |-> 0, owned |-> {}]
  /\ pl = IdlePlaylists

InitGenres ==
  \E n \in 0..MaxGenreArtists, pre \in {{}, {"rock"}, {"k-pop"}} :
    gen = NewGenres(n, pre)

NoGenres == gen = NewGenres(0, {})

Phases == {"basics", "library", "playlists", "genres", "discography", "mainstream"}

EntryPc(ph) ==
  CASE ph = "basics" -> "basics_begin"
    [] ph = "library" -> "lib_begin"
    [] ph = "playlists" -> "pl_begin"
    [] ph = "genres" -> "gen_begin"
    [] ph = "discography" -> "disco_begin"
    [] ph = "mainstream" -> "ms_begin"

Init ==
  /\ call = IdleCall
  /\ outcome = Running
  /\ failures = 0 /\ longSeen = NoErr /\ sentAfterLong = FALSE /\ authSeen = FALSE
  /\ phase \in Phases
  /\ pc = EntryPc(phase)
  /\ IF phase = "library" THEN InitLibrary ELSE NoLibrary
  /\ basics = IdleBasics
  /\ IF phase = "playlists" THEN InitPlaylists ELSE NoPlaylists
  /\ IF phase = "genres" THEN InitGenres ELSE NoGenres
  /\ disco \in {NewDiscography(n) : n \in IF phase = "discography" THEN 0..MaxTopArtists ELSE {0}}
  /\ ms \in IF phase = "mainstream"
              THEN {NewMainstream(n, t, a) : n \in 0..MaxTopGenres,
                                             t \in HeardTrackInputs, a \in HeardArtistInputs}
              ELSE {NewMainstream(0, {}, {})}
  /\ dash = IdleDash
  /\ an = IdleAnalysis
  /\ trk = IdleTrack
  /\ auth = IdleAuth /\ storage = IdleStorage /\ now = 0

Next ==
  \/ ClientRequest
  \/ BuildLibraryBegin
  \/ LibraryPage
  \/ LibraryCatch
  \/ LoadLibraryChunk
  \/ BuildBasicsBegin
  \/ BasicsMeFailed
  \/ BasicsMeOk
  \/ BasicsSafeEnded
  \/ BasicsRouteDelivers
  \/ BuildPlaylistsBegin
  \/ PlaylistsMeOk
  \/ PlaylistsListingPage
  \/ PlaylistsOuterCatch
  \/ PlaylistsTracksPage
  \/ PlaylistsInnerCatch
  \/ BuildGenresBegin
  \/ GenresArtistOk
  \/ GenresArtistCatch
  \/ GenresProbeOk
  \/ GenresProbeCatch
  \/ BuildDiscographyBegin
  \/ DiscographyAlbumsPage
  \/ DiscographyArtistCatch
  \/ DiscographyTracksPage
  \/ DiscographyAlbumCatch
  \/ BuildMainstreamBegin
  \/ MainstreamSearchOk
  \/ MainstreamCatch

Spec == Init /\ [][Next]_vars

\* ------------------------------------------------- the dashboard alone
IdleBuilders ==
  /\ pc = "idle"
  /\ call = IdleCall
  /\ outcome = Running
  /\ failures = 0 /\ longSeen = NoErr /\ sentAfterLong = FALSE /\ authSeen = FALSE
  /\ NoLibrary
  /\ basics = IdleBasics
  /\ NoPlaylists
  /\ NoGenres
  /\ disco = NewDiscography(0)
  /\ ms = NewMainstream(0, {}, {})

DashInit ==
  /\ phase = "dashboard"
  /\ IdleBuilders
  /\ an = IdleAnalysis
  /\ trk = IdleTrack
  /\ auth = IdleAuth /\ storage = IdleStorage /\ now = 0
  /\ \E cached \in {NoCache} \cup CachedProfiles :
       dash = [IdleDash EXCEPT !.cached = cached]

DashNext ==
  \/ DashMount
  \/ DashLoadBasics
  \/ DashBasicsAnswer
  \/ DashTryAgain
  \/ DashCooldownOver
  \/ DashLoadLibrary
  \/ DashLibraryChunk
  \/ DashLoadPlaylists
  \/ DashPlaylistsAnswer
  \/ DashHandleRefresh

DashSpec == DashInit /\ [][DashNext]_vars

\* ------------------------- the Dashboard, tracing what the phases returned
HeardInit ==
  /\ phase = "dashboard"
  /\ IdleBuilders
  /\ an = IdleAnalysis
  /\ trk = IdleTrack
  /\ auth = IdleAuth /\ storage = IdleStorage /\ now = 0
  /\ \E cached \in {NoCache} \cup {c \in CachedProfiles : c.heard \in DisjointOutputs} :
       dash = [IdleDash EXCEPT !.cached = cached, !.traced = TRUE]

HeardNext ==
  \/ DashMount
  \/ DashLoadBasics
  \/ DashBasicsAnswerFrom(DisjointOutputs)
  \/ DashTryAgain
  \/ DashCooldownOver
  \/ DashLoadLibrary
  \/ DashLibraryChunkFrom(DisjointOutputs)
  \/ DashLoadPlaylists
  \/ DashPlaylistsAnswerFrom(DisjointOutputs)
  \/ DashHandleRefresh

HeardSpec == HeardInit /\ [][HeardNext]_vars

\* ----------------------------------------------- the analysis functions alone
AnalysisInit ==
  /\ phase = "analysis"
  /\ IdleBuilders
  /\ dash = IdleDash
  /\ trk = IdleTrack
  /\ auth = IdleAuth /\ storage = IdleStorage /\ now = 0
  /\ \/ \E freq \in Frequencies :
          an = AnalysisInput("computeExplorerScore", freq, <<>>, <<>>)
     \/ \E freq \in Frequencies :
          an = AnalysisInput("analyzeGenres", freq, <<>>, <<>>)
     \/ \E known \in KnownGenres, catalog \in Catalogs :
          an = AnalysisInput("computeBlindSpots", <<>>, known, catalog)

AnalysisNext ==
  \/ AnalyzeExplorerScore
  \/ AnalyzeGenres
  \/ AnalyzeBlindSpots

AnalysisSpec == AnalysisInit /\ [][AnalysisNext]_vars


\* ------------------------------------- buildPlaylists alone, to its end
\* Every request is answered and every await resumes: a step that is
\* possible is eventually taken.
PlaylistsInit == Init /\ phase = "playlists"

PlaylistsNext ==
  \/ ClientRequest
  \/ BuildPlaylistsBegin
  \/ PlaylistsMeOk
  \/ PlaylistsListingPage
  \/ PlaylistsOuterCatch
  \/ PlaylistsTracksPage
  \/ PlaylistsInnerCatch

PlaylistsSpec == PlaylistsInit /\ [][PlaylistsNext]_vars /\ WF_vars(PlaylistsNext)

\* ------------------------- buildGenres alone, with a long list of artists
\* The list is longer than the MAX_ARTIST_LOOKUPS artists buildGenres looks up.
LongList == MAX_ARTIST_LOOKUPS + 1

GenresInit ==
  /\ call = IdleCall
  /\ outcome = Running
  /\ failures = 0 /\ longSeen = NoErr /\ sentAfterLong = FALSE /\ authSeen = FALSE
  /\ phase = "genres"
  /\ pc = "gen_begin"
  /\ NoLibrary
  /\ basics = IdleBasics
  /\ NoPlaylists
  /\ \E n \in (0..MaxGenreArtists) \cup {LongList}, pre \in {{}, {"rock"}, {"k-pop"}} :
       gen = NewGenres(n, pre)
  /\ disco = NewDiscography(0)
  /\ ms = NewMainstream(0, {}, {})
  /\ dash = IdleDash
  /\ an = IdleAnalysis
  /\ trk = IdleTrack
  /\ auth = IdleAuth /\ storage = IdleStorage /\ now = 0

GenresNext ==
  \/ ClientRequestSteady
  \/ BuildGenresBegin
  \/ GenresArtistOk
  \/ GenresArtistCatch
  \/ GenresProbeOk
  \/ GenresProbeCatch

GenresSpec == GenresInit /\ [][GenresNext]_vars

\* ------------------- the builders with inputs longer than their caps
ClientRequestLongInput == ClientRequestFrom(LongInputResponses(call.op, disco.n))

CapsInit ==
  /\ call = IdleCall
  /\ outcome = Running
  /\ failures = 0 /\ longSeen = NoErr /\ sentAfterLong = FALSE /\ authSeen = FALSE
  /\ phase \in {"discography", "mainstream", "genres"}
  /\ pc = EntryPc(phase)
  /\ NoLibrary
  /\ basics = IdleBasics
  /\ NoPlaylists
  /\ gen = NewGenres(IF phase = "genres" THEN LongList ELSE 0, {})
  /\ disco \in {NewDiscography(n) :
                   n \in IF phase = "discography" THEN {1, ARTISTS_TO_SCAN + 1} ELSE {0}}
  /\ ms = NewMainstream(IF phase = "mainstream" THEN MAINSTREAM_GENRES + 1 ELSE 0,
                        {}, {"artistA"})
  /\ dash = IdleDash
  /\ an = IdleAnalysis
  /\ trk = IdleTrack
  /\ auth = IdleAuth /\ storage = IdleStorage /\ now = 0

CapsNext ==
  \/ ClientRequestLongInput
  \/ BuildGenresBegin
  \/ GenresArtistOk
  \/ GenresArtistCatch
  \/ GenresProbeOk
  \/ GenresProbeCatch
  \/ BuildDiscographyBegin
  \/ DiscographyAlbumsPage
  \/ DiscographyArtistCatch
  \/ DiscographyTracksPage
  \/ DiscographyAlbumCatch
  \/ BuildMainstreamBegin
  \/ MainstreamSearchOk
  \/ MainstreamCatch

CapsSpec == CapsInit /\ [][CapsNext]_vars

\* ----------------------- buildBasics: the top artists of the three ranges
TopArtistsInit ==
  /\ phase = "topArtists"
  /\ pc = "idle"
  /\ call = IdleCall
  /\ outcome = Running
  /\ failures = 0 /\ longSeen = NoErr /\ sentAfterLong = FALSE /\ authSeen = FALSE
  /\ NoLibrary
  /\ NoPlaylists
  /\ NoGenres
  /\ disco = NewDiscography(0)
  /\ ms = NewMainstream(0, {}, {})
  /\ \E lists \in ArtistLists : basics = [IdleBasics EXCEPT !.artists = lists]
  /\ dash = IdleDash
  /\ an = IdleAnalysis
  /\ trk = IdleTrack
  /\ auth = IdleAuth /\ storage = IdleStorage /\ now = 0

TopArtistsNext == BasicsCollectArtists

TopArtistsSpec == TopArtistsInit /\ [][TopArtistsNext]_vars

\* --------------------------------- the browser side: session, profile cache
SessionInit ==
  /\ phase \in {"session", "cache"}
  /\ IdleBuilders
  /\ dash = IdleDash
  /\ an = IdleAnalysis
  /\ trk = IdleTrack
  /\ auth = IdleAuth
  /\ \E stored \in StoredSessions :
       /\ phase = "cache" => stored = NoSession
       /\ storage = [IdleStorage EXCEPT !.session = stored]
  /\ now = 0

SessionNext ==
  \/ \E c \in Callers : GetValidSession(c)
  \/ RefreshAnswered
  \/ \E c \in Callers : SessionResumes(c)
  \/ SaveCache
  \/ LoadCache
  \/ ClearCache
  \/ Tick

SessionSpec == SessionInit /\ [][SessionNext]_vars

\* ------------------------------------------------------ processTrack alone
TrackInit ==
  /\ phase = "processTrack"
  /\ IdleBuilders
  /\ dash = IdleDash
  /\ an = IdleAnalysis
  /\ \E currentYear \in CurrentYears : trk = NewAccumulators(currentYear)
  /\ auth = IdleAuth /\ storage = IdleStorage /\ now = 0

TrackNext == ProcessTrack

TrackSpec == TrackInit /\ [][TrackNext]_vars

\* ================================================================ claims
\* A step in which the client sent one more request of the call in progress.
RequestSent == call.status = "inflight" /\ call'.sent = call.sent + 1

\* C1: a 429 whose Retry-After exceeds 30 seconds, on the first attempt or on
\* a retry, makes the call fail at once with rate_limit_long:<that number>:
\* the client does not sleep, and it sends no further request of that call.
C1_LongCooldownFailsAtOnce ==
  [][/\ (RequestSent /\ call'.last.status = 429 /\ call'.last.ra > 30)
          => /\ call'.status = "err"
             /\ call'.err = LongErr(call'.last.ra)
             /\ call'.waited = call.waited
     /\ (call.status = "err" /\ IsLong(call.err)) => call'.sent # call.sent + 1]_vars

\* the long cooldown was signalled on the third request of a call
C1_Witness ==
  call.status = "err" /\ call.err = LongErr(45) /\ call.sent = 3 /\ call.attempt = 2

\* C2: a call sends at most 4 requests (1 initial plus 3 retries); when the
\* fourth is answered 429 as well, the call has failed with an error.
C2_AtMostFourRequests ==
  /\ call.sent <= 4
  /\ (call.sent = 4 /\ call.last.status = 429)
       => call.status = "err" /\ call.err.status = 429

\* four 429 answers with a short Retry-After each: three waits, then the error
C2_Witness ==
  /\ call.sent = 4 /\ call.status = "err" /\ call.err.kind = "status"
  /\ call.err.status = 429 /\ call.last.ra = 5 /\ call.waited = 15

\* C3: a 429 with Retry-After <= 30 s on one of the first three requests is
\* followed by a wait of Retry-After seconds (5 when the header is absent)
\* and a retry; a success on any of the up to four requests makes the call
\* return; so 429/5, 429/5, 200 returns after 10 s of waiting.
C3_RetryHonoursRetryAfter ==
  [][/\ (RequestSent /\ call'.last.status = 429 /\ call'.last.ra <= 30 /\ call.sent < 3)
          => /\ call'.status = "inflight"
             /\ call'.waited = call.waited
                                 + (IF call'.last.ra = Absent THEN 5 ELSE call'.last.ra)
     /\ (RequestSent /\ call'.last.status = 200)
          => call'.status = "ok" /\ call'.waited = call.waited]_vars

\* two 429 with Retry-After 5, then 200
C3_Witness ==
  /\ call.status = "ok" /\ call.sent = 3 /\ call.attempt = 2 /\ call.waited = 10
  /\ call.last.status = 200

\* C4: a non-success status other than 429 makes the call fail at once with
\* an error that carries the status code and the body; no wait, no retry.
C4_OtherStatusIsTerminal ==
  [][/\ (RequestSent /\ call'.last.status # 429
           /\ ~(call'.last.status >= 200 /\ call'.last.status <= 299))
          => /\ call'.status = "err"
             /\ call'.err.kind = "status"
             /\ call'.err.status = call'.last.status
             /\ call'.err.body = call'.last.body
             /\ call'.waited = call.waited
             /\ call'.attempt = call.attempt
     /\ (call.status = "err" /\ call.err.kind = "status") => call'.status # "inflight"
                                                            \/ call'.sent = 0]_vars

\* a 500 on the first request of a call
C4_Witness ==
  call.status = "err" /\ call.err = StatusErr(500, "bodyB") /\ call.sent = 1

\* C5: when a client call of a phase invocation failed with
\* rate_limit_long:<seconds>, the invocation fails towards its caller with
\* that same error.
C5_LongCooldownPropagates ==
  (pc = "return" /\ IsLong(longSeen)) => outcome = Thrown(longSeen)

\* C6: once a client call of a phase invocation has failed with the long
\* cooldown, the invocation sends no further upstream request.
C6_NoRequestAfterLongCooldown == ~sentAfterLong

\* C7: buildLibrary returns nextOffset = null exactly when every page from
\* startOffset up to the upstream total was fetched successfully; otherwise
\* nextOffset is the offset of the first page not yet fetched.
C7_NullOnlyWhenExhausted ==
  (phase = "library" /\ pc = "return")
    => /\ (lib.nextOffset = Null) <=> (~lib.failed /\ lib.offset >= libTotal)
       /\ lib.nextOffset # Null => lib.nextOffset = lib.offset

\* C8: threading nextOffset through repeated invocations until it is null,
\* with no page fetch failing, collects exactly the tracks of the saved
\* library (what the uncapped scan from offset 0 collects), for every page
\* cap, and fetches no page twice.
C8_ChunkedScanEqualsUncapped ==
  (phase = "library" /\ loader.threaded /\ pc = "done" /\ ~loader.anyFailed)
    => /\ loader.heardTracks = 1..libTotal
       /\ ~loader.fetchedTwice
       /\ loader.fetched = {o \in 0..libTotal : o % 50 = 0 /\ (o < libTotal \/ o = 0)}

\* a scan capped at 2 pages per invocation that needed a second invocation
C8_Witness ==
  /\ phase = "library" /\ loader.threaded /\ pc = "done" /\ ~loader.anyFailed
  /\ lib.maxPages = 2 /\ loader.invocations = 2 /\ libTotal > 100

\* C9: one invocation of buildLibrary asks for at most maxPages pages and
\* collects at most maxPages * 50 tracks.
C9_AtMostMaxPages ==
  phase = "library"
    => /\ lib.pageCalls <= lib.maxPages
       /\ lib.pagesScanned <= lib.maxPages
       /\ Cardinality(lib.trackIds) <= lib.maxPages * 50

\* the cap stopped an invocation before the total was reached
C9_Witness ==
  /\ phase = "library" /\ pc = "return" /\ lib.pagesScanned = lib.maxPages
  /\ lib.pageCalls = 2 /\ lib.offset < libTotal /\ lib.nextOffset = lib.offset

PlainFailuresOnly == ~authSeen /\ ~IsLong(longSeen)

C11_OnlyAuthFailureIsFatal ==
  (phase = "basics" /\ pc = "return")
    => /\ outcome.kind = "thrown" => (basics.step = 0 /\ outcome.err.status = 401)
       /\ basics.step > 0
            => /\ outcome = Returned
               /\ \A k \in 1..Len(BasicsLabels) :
                    Cardinality({i \in 1..Len(basics.warnings) :
                                   basics.warnings[i].label = BasicsLabels[k]})
                      = IF k \in basics.failedAt THEN 1 ELSE 0

\* the fetches of one invocation (pages, playlists, albums, artists, genres,
\* basics sub-calls) that failed, and the warnings list of the phase's result
\* (only BasicsResult.warnings and DiscographyResult.errors exist)
SubFetchFailed ==
  CASE phase = "basics" -> basics.failedAt # {}
    [] phase = "library" -> lib.failed
    [] phase = "playlists" -> pl.failedOn # {}
    [] phase = "genres" -> gen.lookupFailed \cup gen.probeFailed # {}
    [] phase = "discography" -> disco.failedOn # {}
    [] phase = "mainstream" -> ms.failedOn # {}

ResultWarnings ==
  CASE phase = "basics" -> basics.warnings
    [] phase = "discography" -> disco.errors
    [] OTHER -> <<>>

\* C12: a phase that returns a result after one of its sub-resource fetches
\* failed returns a warnings list with an entry for the failure.
C12_FailureLeavesWarning ==
  (pc = "return" /\ outcome = Returned /\ SubFetchFailed) => Len(ResultWarnings) > 0

\* C13: a 401 from the upstream during the basics phase is not retried, makes
\* the phase fail and is delivered to the user as session expired, not as a
\* rate limit and not as a generic error.
C13_AuthFailureAsksForReauth ==
  (phase = "basics" /\ pc = "delivered" /\ authSeen)
    => /\ outcome.kind = "thrown"
       /\ basics.delivered = "session_expired"

\* C14: between explicit refreshes the aggregated heard-track and
\* heard-artist sets only grow: whatever phase completes (basics, a library
\* chunk, playlists, a repeated "Retry basics", a basics load after a cache
\* restore), no identifier of the sets is missing afterwards.
C14_HeardSetsOnlyGrow ==
  [][DashHandleRefresh
       \/ /\ dash.heardTracks \subseteq dash'.heardTracks
          /\ dash.heardArtists \subseteq dash'.heardArtists]_vars

\* C15: merging the library or playlists output that was just merged into
\* the aggregate once more leaves trackIds and artistIds as they are.
C15_MergeIsIdempotent ==
  phase = "dashboard"
    => /\ MergeIds(dash.heardTracks, dash.lastMerged.trackIds) = dash.heardTracks
       /\ MergeIds(dash.heardArtists, dash.lastMerged.artistIds) = dash.heardArtists

\* a phase output with a new and an old track was merged into the aggregate
C15_Witness ==
  /\ phase = "dashboard"
  /\ dash.lastMerged.trackIds = {1, 2} /\ dash.lastMerged.artistIds = {"artistA"}
  /\ dash.heardTracks = {1, 2} /\ dash.heardArtists = {"artistA", "artistB"}
  /\ dash.libraryStatus = "error" /\ dash.chunk = 1

ScoreComputed ==
  phase = "analysis" /\ an.fn = "computeExplorerScore" /\ an.stage = "done"

\* C16: when the genre frequencies sum to zero the explorer score is 0 with
\* label "No data yet"; with exactly one genre (of a positive count) it is
\* exactly 5 with label "Laser-Focused".
C16_EdgeScores ==
  ScoreComputed
    => /\ Sum(an.freq) = 0 => (an.score = 0 /\ an.label = "No data yet")
       /\ (Len(an.freq) = 1 /\ Sum(an.freq) > 0)
            => (an.score = 5 /\ an.label = "Laser-Focused")

\* one genre with three artists
C16_Witness ==
  ScoreComputed /\ an.freq = <<3>> /\ an.score = 5 /\ an.label = "Laser-Focused"

\* every genre of the profile has the same positive count
EvenlySpread(freq) ==
  /\ \A i \in 1..Len(freq) : freq[i] = freq[1]
  /\ Len(freq) > 0 => freq[1] > 0

\* C17: for evenly spread profiles the explorer score lies in 0..100, equals
\* round(100 * (0.6 + 0.4 * min(n / 30, 1))) for n >= 2 genres, and is not
\* smaller than the score of the evenly spread profile with one genre less.
C17_EvenScoreMonotone ==
  (ScoreComputed /\ EvenlySpread(an.freq))
    => LET n == Len(an.freq)
       IN  /\ an.score >= 0 /\ an.score <= 100
           /\ n >= 2 => an.score = RoundDiv(1800 + 40 * Min(n, 30), 30)
           /\ n >= 1 => ComputeExplorerScore(EvenFrequencies(n - 1, an.freq[1])).score
                          <= an.score

\* 31 genres of two artists each: the breadth is capped, the score is 100
C17_Witness ==
  ScoreComputed /\ an.freq = EvenFrequencies(31, 2) /\ an.score = 100
    /\ ComputeExplorerScore(EvenFrequencies(2, 2)).score = 63

\* C18: for each genre searched by buildMainstreamAnalysis, heardTracks counts
\* the result tracks whose id is in the heard set, knownArtistTracks those not
\* in the heard set that have a known artist (so heardTracks +
\* knownArtistTracks <= searchedTracks), and overlapPercent is the whole
\* number nearest to 100 * (heardTracks + 0.5 * knownArtistTracks) /
\* searchedTracks, lies in 0..100 and is 0 when nothing was returned; 4 heard
\* and 2 known-artist tracks out of 10 give 50.
C18_MainstreamCounts ==
  (phase = "mainstream" /\ pc = "return")
    => \A k \in 1..Len(ms.results) :
         LET r == ms.results[k]
             heard == {i \in 1..Len(r.tracks) : r.tracks[i].id \in ms.heardTracks}
             known == {i \in 1..Len(r.tracks) :
                         /\ r.tracks[i].id \notin ms.heardTracks
                         /\ \E a \in r.tracks[i].artists : a \in ms.heardArtists}
             twice == 100 * (2 * r.heardTracks + r.knownArtistTracks)
         IN  /\ r.searchedTracks = Len(r.tracks)
             /\ r.heardTracks = Cardinality(heard)
             /\ r.knownArtistTracks = Cardinality(known)
             /\ r.heardTracks + r.knownArtistTracks <= r.searchedTracks
             /\ r.overlapPercent \in 0..100
             /\ r.searchedTracks = 0 => r.overlapPercent = 0
             /\ r.searchedTracks > 0
                  => /\ 2 * r.searchedTracks * r.overlapPercent - twice <= r.searchedTracks
                     /\ twice - 2 * r.searchedTracks * r.overlapPercent < r.searchedTracks
             /\ (r.searchedTracks = 10 /\ r.heardTracks = 4 /\ r.knownArtistTracks = 2)
                  => r.overlapPercent = 50

\* two genres searched: 4 heard and 2 known-artist tracks of 10, and no track
C18_Witness ==
  /\ phase = "mainstream" /\ pc = "return" /\ Len(ms.results) = 2
  /\ ms.results[1].searchedTracks = 10 /\ ms.results[1].heardTracks = 4
  /\ ms.results[1].knownArtistTracks = 2 /\ ms.results[1].overlapPercent = 50
  /\ ms.results[2].searchedTracks = 0 /\ ms.results[2].overlapPercent = 0

SpotsComputed ==
  phase = "analysis" /\ an.fn = "computeBlindSpots" /\ an.stage = "done"

\* C19: in the blind-spot list every "adjacent" entry comes before every
\* "untouched" entry; when a known genre has a neighbour that is not known
\* and is in the catalog, the first entry is an "adjacent" one whose
\* adjacentTo is a known genre that lists it as a neighbour (known {rock}
\* with grunge the only neighbour of rock in the catalog: grunge first).
C19_AdjacentBeforeUntouched ==
  SpotsComputed
    => /\ \A i, j \in 1..Len(an.spots) :
            (i < j /\ an.spots[j].reason = "adjacent") => an.spots[i].reason = "adjacent"
       /\ (\E k \in Range(an.known) : \E adj \in Range(GENRE_ADJACENCY(k)) :
             adj \notin Range(an.known) /\ adj \in Range(an.catalog))
            => /\ Len(an.spots) > 0
               /\ an.spots[1].reason = "adjacent"
               /\ an.spots[1].adjacentTo \in Range(an.known)
               /\ an.spots[1].genre \in Range(GENRE_ADJACENCY(an.spots[1].adjacentTo))
               /\ an.spots[1].genre \notin Range(an.known)
       /\ (an.known = <<"rock">> /\ an.catalog = <<"grunge", "jazz", "k-pop">>)
            => an.spots[1] = [genre |-> "grunge", reason |-> "adjacent",
                              adjacentTo |-> "rock"]

\* known {rock}, catalog grunge, jazz, k-pop: grunge first, then the untouched
C19_Witness ==
  /\ SpotsComputed /\ an.known = <<"rock">> /\ Len(an.spots) = 3
  /\ an.spots[1].genre = "grunge" /\ an.spots[1].adjacentTo = "rock"
  /\ an.spots[2].reason = "untouched" /\ an.spots[3].genre = "jazz"

\* C20: with a < 12 adjacent suggestions and at least 12 - a catalog genres
\* that are neither known nor suggested, the list has exactly 12 entries,
\* 12 - a of them "untouched"; it never has more than 12 entries, never a
\* known genre and never a genre twice.
C20_UntouchedFillToTwelve ==
  SpotsComputed
    => LET adjacent == AdjacentSpots(<<>>, an.known, an.known, an.catalog)
           a == Len(adjacent)
           free == Len(MainGenres(adjacent, an.known, an.catalog))
           untouched == {i \in 1..Len(an.spots) : an.spots[i].reason = "untouched"}
       IN  /\ (a < 12 /\ free >= 12 - a)
                => (Len(an.spots) = 12 /\ Cardinality(untouched) = 12 - a)
           /\ Len(an.spots) <= 12
           /\ \A i \in 1..Len(an.spots) : an.spots[i].genre \notin Range(an.known)
           /\ \A i, j \in 1..Len(an.spots) :
                i # j => an.spots[i].genre # an.spots[j].genre

\* C21: processing a track (one that has an id) adds the id to trackIds; it
\* appends the release year to releaseYears and adds one to exactly the
\* decade bucket floor(year / 10) * 10 + "s" if and only if 1900 < year <=
\* current year + 1, and otherwise changes neither.  A 1994-03-01 track adds
\* 1994 and increments "1990s"; an 1850-01-01 track changes neither.
C21_TimelineOnlySaneYears ==
  [][(phase = "processTrack" /\ trk'.track.id # "")
       => LET t == trk'.track
              year == ParseInt(Slice04(t.releaseDate))
              counted == /\ t.releaseDate # <<>> /\ ~year.isNaN
                         /\ 1900 < year.value /\ year.value <= trk.currentYear + 1
              decades == {e[1] : e \in Range(trk.decadeDistribution)}
                           \cup {e[1] : e \in Range(trk'.decadeDistribution)}
              bucket == <<(year.value \div 10) * 10, "s">>
          IN  /\ trk'.trackIds = trk.trackIds \cup {t.id}
              /\ counted
                   => /\ trk'.releaseYears = Append(trk.releaseYears, year.value)
                      /\ bucket \in decades
                      /\ \A d \in decades :
                           DecadeCount(trk'.decadeDistribution, d)
                             = DecadeCount(trk.decadeDistribution, d)
                                 + (IF d = bucket THEN 1 ELSE 0)
              /\ ~counted
                   => /\ trk'.releaseYears = trk.releaseYears
                      /\ trk'.decadeDistribution = trk.decadeDistribution
              /\ t.releaseDate = DayOf(Chars("1", "9", "9", "4"))
                   => /\ trk'.releaseYears = Append(trk.releaseYears, 1994)
                      /\ DecadeCount(trk'.decadeDistribution, <<1990, "s">>)
                           = DecadeCount(trk.decadeDistribution, <<1990, "s">>) + 1
              /\ t.releaseDate = DayOf(Chars("1", "8", "5", "0"))
                   => /\ trk'.releaseYears = trk.releaseYears
                      /\ trk'.decadeDistribution = trk.decadeDistribution
    ]_vars

\* a 1994-03-01 track, then an 1850-01-01 track
C21_Witness ==
  /\ phase = "processTrack" /\ trk.processed = 2
  /\ trk.track = [id |-> "trackB", releaseDate |-> DayOf(Chars("1", "8", "5", "0"))]
  /\ trk.trackIds = {"trackA", "trackB"}
  /\ trk.releaseYears = <<1994>>
  /\ trk.decadeDistribution = <<<<<<1990, "s">>, 1>>>>

\* a phase builder starts a client call (the first request of it is not sent yet)
CallStarts == call'.status = "inflight" /\ call'.sent = 0 /\ call' # call

\* C22: buildGenres never starts an artist lookup or a genre probe once less
\* than the 5 s safety margin of its 50 s budget remains, and it ends with a
\* normal result, never with a failure.
C22_NoRequestInsideSafetyMargin ==
  [][/\ (phase = "genres" /\ CallStarts) => TimeRemaining(gen'.elapsed) >= 5000
     /\ (phase = "genres" /\ pc' = "return") => outcome' = Returned]_vars

\* C23: in every phase builder a pacing delay separates any two consecutive
\* upstream calls of one invocation: no call is started right after the
\* previous call returned or failed.
C23_CallsArePaced ==
  [][(call.status \in {"ok", "err"} /\ CallStarts) => call'.paced]_vars

\* a page of the tracks of the current playlist has arrived and is handled
TracksPageHandled == phase = "playlists" /\ pc = "pl_tracks" /\ call.status = "ok"

\* C24: the per-playlist track scan of buildPlaylists always terminates: a
\* page that is handled either advances the offset by the non-zero number of
\* items received or ends the scan of the playlist; after an empty page there
\* is no further request for that playlist; and buildPlaylists, once it
\* scans, reaches its return.
C24_TrackScanTerminates ==
  /\ [][TracksPageHandled
          => LET items == PlaylistPage(pl.cur, pl.ptOffset, call.last.payload)
                 goesOn == pc' = "pl_tracks" /\ pl'.cur = pl.cur
             IN  /\ goesOn => /\ Cardinality(items) > 0
                              /\ pl'.ptOffset = pl.ptOffset + Cardinality(items)
                              /\ pl'.ptOffset < PlaylistTracksTotal(pl.cur)
                 /\ items = {} => (~goesOn /\ pl.cur \in pl'.blockedOn)
                 /\ \A p \in pl.blockedOn : pl'.cur # p
       ]_vars
  /\ (phase = "playlists" /\ pc = "pl_tracks") ~> (pc = "return")

\* playlist 1 (60 tracks): half a page, then an empty page ends its scan, and
\* the scan of the other playlist runs to its total
C24_Witness ==
  /\ phase = "playlists" /\ pc = "return"
  /\ pl.blockedOn = {1}
  /\ <<1, 0, "short">> \in pl.pagesOk
  /\ Cardinality({t \in pl.trackIds : t < 2000}) = PAGE_SIZE \div 2
  /\ Cardinality(pl.trackIds) = PAGE_SIZE \div 2 + PAGE_SIZE

\* C25: when the dashboard gets its session and loadCache returns a profile
\* with basics done, the cached state is restored and no basics request is
\* sent; and the restored heard sets are not afterwards replaced by a basics
\* response.
C25_CacheRestoreSendsNoBasics ==
  [][/\ (~dash.mounted /\ dash'.mounted /\ dash.cached.present)
          => /\ dash'.restoredFromCache
             /\ dash'.heardTracks = dash.cached.heard.trackIds
             /\ dash'.heardArtists = dash.cached.heard.artistIds
             /\ dash'.basicsInFlight = 0
     /\ (dash.restoredFromCache /\ dash.basicsInFlight > dash'.basicsInFlight)
          => /\ dash'.heardTracks = dash.heardTracks
             /\ dash'.heardArtists = dash.heardArtists]_vars

\* C26: token refresh deduplicates concurrent calls. At most one refresh
\* request is in flight at any time; a call of refreshAccessToken made while
\* one is in flight starts no request and awaits that same request, whose
\* result it receives; a call made when none is in flight (the earlier one
\* has completed, successfully or not) starts a new request.
C26_RefreshIsDeduplicated ==
  [][/\ Cardinality(Pending') <= 1
     /\ \A c \in Callers :
          /\ (auth.callers[c].pc # "awaiting" /\ auth'.callers[c].pc = "awaiting") =>
               IF Pending # {}
                 THEN /\ auth'.promises = auth.promises
                      /\ auth'.callers[c].awaiting \in Pending
                 ELSE /\ Len(auth'.promises) = Len(auth.promises) + 1
                      /\ auth'.callers[c].awaiting = Len(auth'.promises)
                      /\ auth'.promises[Len(auth'.promises)].state = "pending"
          /\ (auth.callers[c].pc = "awaiting" /\ auth'.callers[c].pc = "done") =>
               LET refreshed == auth.promises[auth.callers[c].awaiting].result
               IN  /\ auth.promises[auth.callers[c].awaiting].state = "settled"
                   /\ refreshed.present => auth'.callers[c].result = refreshed
                   /\ auth'.callers[c].refreshFailed = ~refreshed.present]_vars

\* one request was shared by both callers and failed; the next call, made
\* after it completed, started the second request
C26_Witness ==
  /\ Len(auth.promises) = 2
  /\ auth.promises[1].state = "settled" /\ ~auth.promises[1].result.present
  /\ auth.promises[2].state = "pending"
  /\ auth.callers["useSessionB"].pc = "done"
  /\ auth.callers["useSessionB"].inFlightAtCall = 1
  /\ auth.callers["useSessionB"].refreshFailed
  /\ auth.callers["useSessionA"].pc = "awaiting"
  /\ auth.callers["useSessionA"].awaiting = 2

\* C27: getValidSession returns null if there is no stored session or if the
\* token needed refreshing and the refresh failed; it returns a session only
\* when no refresh was needed or the refresh succeeded.
C27_NullWhenRefreshFails ==
  \A c \in Callers :
    auth.callers[c].pc = "done" =>
      /\ ~auth.callers[c].session.present => ~auth.callers[c].result.present
      /\ (auth.callers[c].needed /\ auth.callers[c].refreshFailed) =>
           ~auth.callers[c].result.present
      /\ auth.callers[c].result.present =>
           (~auth.callers[c].needed \/ ~auth.callers[c].refreshFailed)

\* C28: the profile cache has a 24-hour time-to-live. loadCache never returns
\* an entry whose timestamp is more than 24 hours old; the load that finds an
\* expired entry removes it from storage; a load that finds no entry returns
\* null.
C28_CacheTimeToLive ==
  [][storage'.lastLoad # storage.lastLoad =>
       LET load == storage'.lastLoad
           found == storage.profile
       IN  /\ load.found = found /\ load.at = now
           /\ load.result.present =>
                /\ load.result = found
                /\ now - load.result.timestamp <= TTL_MS
           /\ (found.present /\ now - found.timestamp > TTL_MS) =>
                /\ ~load.result.present
                /\ ~storage'.profile.present
           /\ ~found.present => (~load.result.present /\ ~storage'.profile.present)]_vars

\* an entry saved when the page was opened was found a little more than 24
\* hours later, not returned, and removed
C28_Witness ==
  /\ storage.lastLoad.called
  /\ storage.lastLoad.found = Entry(0)
  /\ storage.lastLoad.at = TTL_MS + REFRESH_BUFFER_MS \div 2
  /\ ~storage.lastLoad.result.present
  /\ ~storage.profile.present


\* C29: buildGenres follows the preference order. If the preloaded artist
\* genres yield at least one genre, no individual artist is looked up;
\* otherwise at most 8 artists are looked up (the first 8 of the list, each
\* once); and a genre probe search is issued only for a catalog genre that is
\* not known when the search is issued.
C29_GenresPreferenceOrder ==
  [][(phase = "genres" /\ CallStarts) =>
       /\ call'.op = "getArtist" =>
            /\ gen.preloaded = {}
            /\ call'.arg < MAX_ARTIST_LOOKUPS
            /\ call'.arg \notin gen.lookedUp
            /\ Cardinality(gen'.lookedUp) <= MAX_ARTIST_LOOKUPS
       /\ call'.op = "searchProbe" =>
            /\ gen'.toProbe[call'.arg] \in Range(PROBE_GENRES)
            /\ gen'.toProbe[call'.arg] \notin gen.knownGenres
            /\ gen'.toProbe[call'.arg] \notin gen.preloaded]_vars

\* a list of nine artists without preloaded genres: eight were looked up, the
\* ninth was not, and "pop", which a lookup made known, was not probed
C29_Witness ==
  /\ phase = "genres" /\ pc = "return"
  /\ gen.n = MAX_ARTIST_LOOKUPS + 1 /\ gen.preloaded = {}
  /\ gen.lookedUp = 0..(MAX_ARTIST_LOOKUPS - 1)
  /\ "pop" \in gen.knownGenres
  /\ gen.probeTried = {"rock", "hip-hop"}

\* C30: within one buildGenres run each (artist, genre) pair increments
\* genreFrequency[genre] at most once, so in the result genreFrequency[g] is
\* the number of distinct artists in genreArtists[g], for every genre g.
C30_FrequencyCountsDistinctArtists ==
  (phase = "genres" /\ pc = "return") =>
    \A g \in Genres : gen.genreFrequency[g] = Cardinality(gen.genreArtists[g])


\* C31: every album returned by buildDiscography has unheardCount >= 1, equal
\* to the number of the album's fetched tracks whose id is not in the heard
\* set; an album with no unheard track or with no track returned is omitted;
\* the returned list is ordered by unheardCount, non-increasing.
C31_DiscographyAlbums ==
  (phase = "discography" /\ pc = "return") =>
    /\ \A i \in 1..Len(disco.results) :
         /\ disco.results[i].unheardCount >= 1
         /\ \E x \in disco.tracksOk :
              /\ x[1] = disco.results[i].artistId /\ x[2] = disco.results[i].albumId
              /\ disco.results[i].unheardCount =
                   Cardinality({k \in 1..Len(AlbumTracks(x[3])) :
                                  AlbumTracks(x[3])[k] \notin DiscographyHeardTrackIds})
    /\ \A x \in disco.tracksOk :
         (\A k \in 1..Len(AlbumTracks(x[3])) :
            AlbumTracks(x[3])[k] \in DiscographyHeardTrackIds)
           => ~\E i \in 1..Len(disco.results) :
                 disco.results[i].artistId = x[1] /\ disco.results[i].albumId = x[2]
    /\ \A i, j \in 1..Len(disco.results) :
         i < j => disco.results[i].unheardCount >= disco.results[j].unheardCount

\* the album with two unheard tracks was fetched after the one with one and
\* is returned before it; the second artist's fully heard album is omitted
C31_Witness ==
  /\ phase = "discography" /\ pc = "return"
  /\ disco.results = <<[artistId |-> 1, albumId |-> 2, unheardCount |-> 2],
                       [artistId |-> 1, albumId |-> 1, unheardCount |-> 1]>>
  /\ <<2, 1, "allheard">> \in disco.tracksOk
  /\ <<2, 2, "empty">> \in disco.tracksOk


\* C32: the number of client calls of one invocation is bounded whatever the
\* input size and the failures: buildDiscography makes at most 5 artist-albums
\* calls and at most 25 album-tracks calls (5 per artist), buildMainstreamAnalysis
\* at most 8 searches, buildGenres at most 8 artist lookups and at most one
\* probe search per catalog genre (30).  No call repeats an earlier one, so
\* the sets of attempted items count the calls.
C32_CallsAreBounded ==
  [][CallStarts =>
       /\ call'.op = "getArtistAlbums" =>
            /\ call'.arg \notin disco.artistsTried
            /\ Cardinality(disco'.artistsTried) <= 5
       /\ call'.op = "getAlbumTracks" =>
            /\ <<disco'.a, call'.arg>> \notin disco.albumsTried
            /\ Cardinality({x \in disco'.albumsTried : x[1] = disco'.a}) <= 5
            /\ Cardinality(disco'.albumsTried) <= 25
       /\ call'.op = "searchMainstream" =>
            /\ call'.arg \notin ms.tried
            /\ Cardinality(ms'.tried) <= 8
       /\ call'.op = "getArtist" =>
            /\ call'.arg \notin gen.lookedUp
            /\ Cardinality(gen'.lookedUp) <= 8
       /\ call'.op = "searchProbe" =>
            /\ gen'.toProbe[call'.arg] \notin gen.probeTried
            /\ Cardinality(gen'.probeTried) <= 30]_vars

\* six artists were given: five were asked for their albums, the sixth not
C32_Witness ==
  /\ phase = "discography" /\ pc = "return"
  /\ disco.n = ARTISTS_TO_SCAN + 1
  /\ disco.artistsTried = 1..ARTISTS_TO_SCAN
  /\ Cardinality(disco.albumsTried) = ARTISTS_TO_SCAN - 1
  /\ disco.failedOn = {<<2, 0>>}


IdsOf(list) == {x \in Range(list) : x # ""}

\* C33: topArtistIds of buildBasics holds each artist id of the long-, medium-
\* and short-term top-artist lists exactly once, every long-term artist before
\* every artist that is not long-term, every medium-term artist before every
\* artist that is only short-term; an artist that is only followed is not in it.
C33_TopArtistOrder ==
  (phase = "topArtists" /\ basics.collected) =>
    LET top == basics.topArtistIds
        long == IdsOf(basics.artists.long)
        medium == IdsOf(basics.artists.medium)
        short == IdsOf(basics.artists.short)
    IN  /\ Range(top) = long \cup medium \cup short
        /\ \A i, j \in 1..Len(top) : top[i] = top[j] => i = j
        /\ \A i, j \in 1..Len(top) :
             (top[i] \in long /\ top[j] \notin long) => i < j
        /\ \A i, j \in 1..Len(top) :
             (top[i] \in medium /\ top[j] \notin long \cup medium) => i < j
        /\ \A x \in IdsOf(basics.artists.followed) \ (long \cup medium \cup short) :
             x \notin Range(top)

\* artistA is short-, medium- and long-term, artistC only short-term and
\* listed first upstream, artistD only followed
C33_Witness ==
  /\ phase = "topArtists" /\ basics.collected
  /\ basics.artists = [long |-> <<"artistA">>, medium |-> <<"artistB", "artistA">>,
                       short |-> <<"artistC", "artistA">>,
                       followed |-> <<"artistD", "artistA">>]
  /\ basics.topArtistIds = <<"artistA", "artistB", "artistC">>
  /\ "artistD" \in basics.artistIds


\* C34: while a rate-limit cooldown is active in the dashboard and the user
\* has not pressed "skip cooldown", no basics request is sent: a step that
\* starts and ends with the cooldown active starts no basics fetch.
C34_NoBasicsRequestDuringCooldown ==
  [][(phase = "dashboard" /\ dash.rateLimited /\ dash'.rateLimited)
       => dash'.basicsInFlight <= dash.basicsInFlight]_vars

\* "try again" was pressed while the cooldown was active: the status is idle,
\* both effects have run, and nothing was fetched
C34_Witness ==
  /\ phase = "dashboard" /\ dash.mounted
  /\ dash.basicsStatus = "idle" /\ dash.rateLimited
  /\ ~dash.user /\ ~dash.restoredFromCache
  /\ dash.basicsInFlight = 0


\* C39: at most one basics request of the dashboard is in flight at any time,
\* whatever the interleaving of mount, cache restore, explicit refresh, "try
\* again" and "Retry basics".
C39_OneBasicsRequestInFlight ==
  phase = "dashboard" => dash.basicsInFlight <= 1


\* C35: when the current-user call of the basics phase fails with
\* rate_limit_long:<n>, the basics endpoint answers 429 with error
\* 'rate_limit_long' and retryAfter n, and the dashboard sets the basics
\* status to 'error' and a cooldown of n seconds from that moment.
C35_LongCooldownReachesTheUser ==
  (/\ phase = "basics" /\ pc = "delivered"
   /\ outcome.kind = "thrown" /\ IsLong(outcome.err)) =>
    /\ basics.response = [status |-> 429, error |-> "rate_limit_long",
                          retryAfter |-> outcome.err.secs]
    /\ basics.status = "error"
    /\ basics.cooldownMs = 1000 * outcome.err.secs

\* the current-user call was answered 429 with Retry-After: 45
C35_Witness ==
  /\ phase = "basics" /\ pc = "delivered"
  /\ longSeen = LongErr(45) /\ outcome = Thrown(LongErr(45))
  /\ basics.step = 0
  /\ basics.delivered = "cooldown" /\ basics.cooldownMs = 45000


\* the sum of the counts of a decade distribution
RECURSIVE DecadeTotal(_)
DecadeTotal(dd) == IF dd = <<>> THEN 0 ELSE dd[1][2] + DecadeTotal(Tail(dd))

\* C36: each distinct track contributes to the decade timeline exactly once:
\* the sum of the decade counts and the number of release years never exceed
\* the number of distinct track ids collected.
C36_TrackCountsOnce ==
  phase = "processTrack" =>
    /\ Len(trk.releaseYears) <= Cardinality(trk.trackIds)
    /\ DecadeTotal(trk.decadeDistribution) <= Cardinality(trk.trackIds)


\* C37: the explorer score and label the dashboard computes in analyzeGenres
\* equal those of computeExplorerScore for every genre frequency map, the
\* empty map and a single-genre map included.
C37_DashboardScoreEqualsLibraryScore ==
  (phase = "analysis" /\ an.fn = "analyzeGenres" /\ an.stage = "done") =>
    [score |-> an.score, label |-> an.label] = ComputeExplorerScore(an.freq)


\* invocations of the library endpoint whose response loadLibrary has merged
LibraryInvocations == loader.invocations
CeilDiv(a, b) == (a + b - 1) \div b

\* C38 as stated: every non-null nextOffset of buildLibrary is strictly greater
\* than the startOffset of the invocation, and the loop of loadLibrary makes at
\* most ceil(total / 50) invocations, failing invocations included.
C38_AtMostCeilInvocations ==
  (phase = "library" /\ loader.threaded) =>
    /\ (pc = "return" /\ lib.nextOffset # Null) => lib.nextOffset > lib.startOffset
    /\ LibraryInvocations <= CeilDiv(libTotal, PAGE_SIZE)

\* C38, amended: every non-null nextOffset of buildLibrary is strictly greater
\* than the startOffset of the invocation (for any start offset and page cap),
\* and the loop of loadLibrary makes at most max(1, ceil(total / 50))
\* invocations, failing invocations included: an empty library takes one.
C38_CursorAdvances ==
  phase = "library" =>
    /\ (pc = "return" /\ lib.nextOffset # Null) => lib.nextOffset > lib.startOffset
    /\ loader.threaded =>
         LibraryInvocations <= Max(1, CeilDiv(libTotal, PAGE_SIZE))

\* a scan of 101 tracks whose first invocation failed on its second page
\* and returns the cursor of that page
C38_Witness ==
  /\ phase = "library" /\ loader.threaded /\ pc = "return"
  /\ libTotal = 2 * PAGE_SIZE + 1
  /\ lib.failed /\ loader.invocations = 0
  /\ lib.startOffset = 0 /\ lib.nextOffset = PAGE_SIZE


\* C40: in every reachable dashboard state, a status 'done' of the library
\* (or playlists) phase implies that all track and artist ids that the
\* responses of that phase carried are in the current heard sets, also after
\* a refresh while a request was in flight, a basics reload, a cache restore.
C40_DonePhaseIdsAreHeard ==
  phase = "dashboard" =>
    /\ dash.libraryStatus = "done" =>
         /\ dash.libraryReturned.trackIds \subseteq dash.heardTracks
         /\ dash.libraryReturned.artistIds \subseteq dash.heardArtists
    /\ dash.playlistsStatus = "done" =>
         /\ dash.playlistsReturned.trackIds \subseteq dash.heardTracks
         /\ dash.playlistsReturned.artistIds \subseteq dash.heardArtists

====
